---------------------------- MODULE Spec2Model ----------------------------
(***************************************************************************)
(* A model of the parsimon core pipeline:                                  *)
(*   Topology::new -> BfsRoutes::new -> Network::into_simulations          *)
(*   -> SimNetwork::cluster -> SimNetwork::into_delays                     *)
(*   -> DelayNetwork::predict                                              *)
(* Node ids, node indices and edge indices are 0-based as in the source;   *)
(* sequences are 1-based, so index i of the source is position i + 1.      *)
(***************************************************************************)
EXTENDS Integers, Sequences, FiniteSets, TLC

VARIABLES
    pc,         \* the operation the program has reached
    nodes,      \* the Vec<Node> given to Network::new
    links,      \* the Vec<Link> given to Network::new
    network,    \* Result<Topology, TopologyError>, with the routes once built
    flows,      \* the Vec<Flow> given to Network::into_simulations
    hash,       \* utils::calculate_hash on flow ids
    sim,        \* the SimNetwork
    opts,       \* the SimOpts given to into_delays
    run,        \* the tasks of into_delays and what they have produced
    delays,     \* Result<DelayNetwork, SimNetworkError>
    prediction  \* a call of DelayNetwork::predict and its result

vars == <<pc, nodes, links, network, flows, hash, sim, opts, run, delays, prediction>>

simVars == <<flows, hash, sim>>

delayVars == <<opts, run, delays, prediction>>

(***************************************************************************)
(* Bounds of the model.                                                    *)
(***************************************************************************)
MaxNodes == 3
MaxLinks == 2

(***************************************************************************)
(* Generic helpers on sequences.                                           *)
(***************************************************************************)
Range(s) == {s[i] : i \in DOMAIN s}

SeqsUpTo(S, n) == UNION {[1..k -> S] : k \in 0..n}

Min(S) == CHOOSE x \in S : \A y \in S : x <= y

Max(S) == CHOOSE x \in S : \A y \in S : x >= y

\* The position element i of `keys` takes in a stable ascending sort.
StableRank(keys, i) ==
    1 + Cardinality({j \in DOMAIN keys :
                        keys[j] < keys[i] \/ (keys[j] = keys[i] /\ j < i)})

\* `s` stably sorted by the keys `keys` (keys[i] is the key of s[i]).
StableSortBy(s, keys) ==
    [r \in DOMAIN s |-> s[CHOOSE i \in DOMAIN s : StableRank(keys, i) = r]]

\* Option<T>
None == [tag |-> "None"]

Some(v) == [tag |-> "Some", val |-> v]

(***************************************************************************)
(* network/types.rs: nodes, links, channels.                               *)
(***************************************************************************)
NodeKind == {"Host", "Switch"}

Node(id, kind) == [id |-> id, kind |-> kind]

Link(a, b, bandwidth, delay) ==
    [a |-> a, b |-> b, bandwidth |-> bandwidth, delay |-> delay]

BasicChannel(src, dst, bandwidth, delay) ==
    [src |-> src, dst |-> dst, bandwidth |-> bandwidth, delay |-> delay]

(***************************************************************************)
(* network/topology.rs: Topology::new.                                     *)
(***************************************************************************)
TopologyError(kind, payload) == [tag |-> "Err", kind |-> kind, payload |-> payload]

\* nodes.iter().cloned().sorted_by_key(|n| n.id)
SortedNodes(ns) == StableSortBy(ns, [i \in DOMAIN ns |-> ns[i].id])

\* The node loop returns at position i (0-based i - 1) of the sorted nodes.
NodeLoopFails(sorted, i) ==
    \/ \E j \in 1..(i - 1) : sorted[j].id = sorted[i].id
    \/ sorted[i].id # i - 1

NodeLoopError(sorted, i) ==
    IF \E j \in 1..(i - 1) : sorted[j].id = sorted[i].id
    THEN TopologyError("DuplicateNodeId", <<sorted[i].id>>)
    ELSE TopologyError("HoleBeforeId", <<sorted[i].id>>)

\* The link loop returns at link k.
LinkLoopFails(ids, ls, k) ==
    \/ ls[k].a = ls[k].b
    \/ ls[k].a \notin ids
    \/ ls[k].b \notin ids

LinkLoopError(ids, ls, k) ==
    IF ls[k].a = ls[k].b THEN TopologyError("NodeAdjacentSelf", <<ls[k].a>>)
    ELSE IF ls[k].a \notin ids THEN TopologyError("UndeclaredNode", <<ls[k].a>>)
    ELSE TopologyError("UndeclaredNode", <<ls[k].b>>)

\* The two add_edge calls of every link: link k (1-based) makes the channels
\* of edge index 2(k-1) (a -> b) and 2(k-1) + 1 (b -> a).
EdgesOf(ls) ==
    [e \in 1..(2 * Len(ls)) |->
        LET l == ls[(e + 1) \div 2]
        IN  IF e % 2 = 1
            THEN BasicChannel(l.a, l.b, l.bandwidth, l.delay)
            ELSE BasicChannel(l.b, l.a, l.bandwidth, l.delay)]

\* g.edges_connecting(a, b).count()
EdgesConnecting(edges, a, b) ==
    Cardinality({e \in DOMAIN edges : edges[e].src = a /\ edges[e].dst = b})

\* g.edges(a).count()
NrOutgoing(edges, a) == Cardinality({e \in DOMAIN edges : edges[e].src = a})

\* A variant of the edge loop that leaves out the host check.
EdgeLoopFails_NoHostCheck(sorted, edges, e) ==
    EdgesConnecting(edges, edges[e].src, edges[e].dst) > 1

\* The edge loop returns at edge e.
EdgeLoopFails(sorted, edges, e) ==
    \/ EdgesConnecting(edges, edges[e].src, edges[e].dst) > 1
    \/ /\ sorted[edges[e].src + 1].kind = "Host"
       /\ NrOutgoing(edges, edges[e].src) > 1

EdgeLoopError(sorted, edges, e) ==
    IF EdgesConnecting(edges, edges[e].src, edges[e].dst) > 1
    THEN TopologyError("DuplicateLink", <<edges[e].src, edges[e].dst>>)
    ELSE TopologyError("TooManyHostLinks",
                       <<edges[e].src, NrOutgoing(edges, edges[e].src)>>)

\* Topology::new.  The IsolatedNode error carries the first isolated id met
\* when iterating a hash map, which is any of them: the payload is left out.
TopologyNew(ns, ls) ==
    LET sorted == SortedNodes(ns)
        badNodes == {i \in DOMAIN sorted : NodeLoopFails(sorted, i)}
        ids == {sorted[i].id : i \in DOMAIN sorted}
        badLinks == {k \in DOMAIN ls : LinkLoopFails(ids, ls, k)}
        referenced == {ls[k].a : k \in DOMAIN ls} \cup {ls[k].b : k \in DOMAIN ls}
        edges == EdgesOf(ls)
        badEdges == {e \in DOMAIN edges : EdgeLoopFails(sorted, edges, e)}
    IN  IF badNodes # {} THEN NodeLoopError(sorted, Min(badNodes))
        ELSE IF badLinks # {} THEN LinkLoopError(ids, ls, Min(badLinks))
        ELSE IF ids \ referenced # {} THEN TopologyError("IsolatedNode", <<>>)
        ELSE IF badEdges # {} THEN EdgeLoopError(sorted, edges, Min(badEdges))
        ELSE [tag |-> "Ok", nodes |-> sorted, edges |-> edges, links |-> ls]

NoNetwork == None

(***************************************************************************)
(* routing.rs: BfsRoutes::new and RoutingAlgo::next_hops.                  *)
(***************************************************************************)
NodeIdxs(t) == 0..(Len(t.nodes) - 1)

\* g.neighbors(n): the targets of the outgoing edges of n, most recently
\* added edge first (petgraph walks the adjacency list from its head).
RECURSIVE NeighborsFrom(_, _, _)
NeighborsFrom(t, n, e) ==
    IF e = 0 THEN <<>>
    ELSE IF t.edges[e].src = n
         THEN <<t.edges[e].dst>> \o NeighborsFrom(t, n, e - 1)
         ELSE NeighborsFrom(t, n, e - 1)

Neighbors(t, n) == NeighborsFrom(t, n, Len(t.edges))

Undiscovered == -1

\* A variant of the entry test that keeps only the hop that discovered succ.
IsNextHop_FirstOnly(new, distSucc, curDistance) == new

\* `if *distances.get(&succ).unwrap() == cur_distance + 1`
IsNextHop(new, distSucc, curDistance) == distSucc = curDistance + 1

\* The `for succ in g.neighbors(n)` loop of one popped node n.
RECURSIVE BfsSuccs(_, _, _, _, _)
BfsSuccs(t, start, n, succs, st) ==
    IF succs = <<>> THEN st
    ELSE
        LET succ == Head(succs)
            cur == st.distances[n]
            new == st.distances[succ] = Undiscovered
            distances1 == IF new THEN [st.distances EXCEPT ![succ] = cur + 1]
                          ELSE st.distances
            queue1 == IF new /\ t.nodes[succ + 1].kind = "Switch"
                      THEN Append(st.queue, succ)
                      ELSE st.queue
            entries1 == IF IsNextHop(new, distances1[succ], cur)
                        THEN Append(st.entries,
                                    <<t.nodes[succ + 1].id, t.nodes[start + 1].id,
                                      t.nodes[n + 1].id>>)
                        ELSE st.entries
        IN  BfsSuccs(t, start, n, Tail(succs),
                     [queue |-> queue1, distances |-> distances1, entries |-> entries1])

\* The `while let Some(n) = queue.pop_front()` loop.
RECURSIVE BfsLoop(_, _, _)
BfsLoop(t, start, st) ==
    IF st.queue = <<>> THEN st.entries
    ELSE LET n == Head(st.queue)
         IN  BfsLoop(t, start,
                     BfsSuccs(t, start, n, Neighbors(t, n),
                              [st EXCEPT !.queue = Tail(st.queue)]))

\* The entries (a, b, c) of the BFS started at `start`, in the order pushed.
BfsEntries(t, start) ==
    BfsLoop(t, start,
            [queue |-> <<start>>,
             distances |-> [x \in NodeIdxs(t) |-> IF x = start THEN 0 ELSE Undiscovered],
             entries |-> <<>>])

RECURSIVE HopsOf(_, _)
HopsOf(entries, a) ==
    IF entries = <<>> THEN <<>>
    ELSE IF Head(entries)[1] = a
         THEN <<Head(entries)[3]>> \o HopsOf(Tail(entries), a)
         ELSE HopsOf(Tail(entries), a)

\* BfsRoutes::new: hops[a][b].  All entries (., b, .) come from the BFS
\* started at b, so the order within hops[a][b] does not depend on the order
\* in which the chunks of par_chunks arrive.
BfsRoutesNew(t) ==
    LET entries == [b \in NodeIdxs(t) |-> BfsEntries(t, b)]
    IN  [a \in NodeIdxs(t) |-> [b \in NodeIdxs(t) |-> HopsOf(entries[b], a)]]

\* RoutingAlgo::next_hops for BfsRoutes.
NextHops(routes, from, to) ==
    IF from \in DOMAIN routes /\ to \in DOMAIN routes[from]
    THEN Some(routes[from][to])
    ELSE None

\* Network::new.
NetworkNew(ns, ls) ==
    LET t == TopologyNew(ns, ls)
    IN  IF t.tag = "Ok"
        THEN [tag |-> "Ok", topology |-> t, routes |-> BfsRoutesNew(t)]
        ELSE t

(***************************************************************************)
(* constants.rs, network/types.rs: flows and flow channels.                *)
(***************************************************************************)
SZ_PKTMAX == 1000

SZ_ACK == 60

\* Nanosecs::MAX is u64::MAX in the code; here the largest integer of the
\* model checker.  It is only ever compared with start times.
NanosecsMAX == 2147483647

Flow(id, src, dst, size, start) ==
    [id |-> id, src |-> src, dst |-> dst, size |-> size, start |-> start]

CeilDiv(a, b) == (a + b - 1) \div b

\* (size / SZ_PKTMAX).ceil()
NrPkts(size) == CeilDiv(size, SZ_PKTMAX)

\* A variant that counts the source node of the channel as a flow source.
FlowChannelNewFrom_OwnSource(chan) ==
    [src |-> chan.src, dst |-> chan.dst,
     bandwidth |-> chan.bandwidth, delay |-> chan.delay,
     nr_bytes |-> 0, nr_ack_bytes |-> 0,
     flow_srcs |-> {chan.src}, flow_dsts |-> {},
     flow_start |-> NanosecsMAX, flow_end |-> 0,
     flows |-> <<>>]

\* FlowChannel::new_from
FlowChannelNewFrom(chan) ==
    [src |-> chan.src, dst |-> chan.dst,
     bandwidth |-> chan.bandwidth, delay |-> chan.delay,
     nr_bytes |-> 0, nr_ack_bytes |-> 0,
     flow_srcs |-> {}, flow_dsts |-> {},
     flow_start |-> NanosecsMAX, flow_end |-> 0,
     flows |-> <<>>]

\* A variant of push_flow that leaves flow_end alone.
PushFlow_NoEnd(chan, f) ==
    [chan EXCEPT !.nr_bytes = @ + f.size,
                 !.nr_ack_bytes = @ + SZ_ACK * NrPkts(f.size),
                 !.flow_srcs = @ \cup {f.src},
                 !.flow_dsts = @ \cup {f.dst},
                 !.flow_start = Min({@, f.start}),
                 !.flows = Append(@, f.id)]

\* FlowChannel::push_flow
PushFlow(chan, f) ==
    [chan EXCEPT !.nr_bytes = @ + f.size,
                 !.nr_ack_bytes = @ + SZ_ACK * NrPkts(f.size),
                 !.flow_srcs = @ \cup {f.src},
                 !.flow_dsts = @ \cup {f.dst},
                 !.flow_start = Min({@, f.start}),
                 !.flow_end = Max({@, f.start}),
                 !.flows = Append(@, f.id)]

RECURSIVE PushFlows(_, _)
PushFlows(chan, fs) ==
    IF fs = <<>> THEN chan ELSE PushFlows(PushFlow(chan, Head(fs)), Tail(fs))

\* FlowChannel::duration
Duration(chan) ==
    IF chan.flows = <<>> THEN 0 ELSE chan.flow_end - chan.flow_start

\* FlowChannel::nr_flows
NrFlows(chan) == Len(chan.flows)

(***************************************************************************)
(* network.rs: TopologyNetwork::edge_indices_between.  Edge indices are    *)
(* positions in the edge list (petgraph's EdgeIndex plus one).  The        *)
(* `choose` closure is given as a record naming the closure and its        *)
(* captured values.                                                        *)
(***************************************************************************)
Panic == [tag |-> "Panic"]

Ok(v) == [tag |-> "Ok", val |-> v]

\* Topology::find_edge
FindEdge_Reverse(t, i, j) ==
    CHOOSE e \in DOMAIN t.edges : t.edges[e].src = j /\ t.edges[e].dst = i

FindEdge(t, i, j) ==
    CHOOSE e \in DOMAIN t.edges : t.edges[e].src = i /\ t.edges[e].dst = j

\* A variant of the closure of into_simulations that takes the first choice.
PickByHash_First(h, choices) == choices[1]

\* `let idx = hash as usize % choices.len(); Some(&choices[idx])`
PickByHash(h, choices) == choices[(h % Len(choices)) + 1]

\* The closure of into_simulations, capturing the hash of the flow id.
HashChooser(h) == [kind |-> "hash", hash |-> h]

\* The closure of predict, `|choices| choices.choose(&mut rng)`, capturing the
\* generator, which is given by the numbers it draws hop after hop.
RngChooser(draws) == [kind |-> "rng", draws |-> draws]

\* The closure of link_sim_desc, `|choices| choices.first()`.
FirstChooser == [kind |-> "first"]

\* Calling the closure on the next-hop choices of hop number `hop`.
Choose(chooser, choices, hop) ==
    CASE chooser.kind = "hash" ->
            IF choices = <<>> THEN Panic
            ELSE Some(PickByHash(chooser.hash, choices))
      [] chooser.kind = "rng" ->
            IF choices = <<>> THEN None
            ELSE Some(choices[(chooser.draws[hop] % Len(choices)) + 1])
      [] chooser.kind = "first" ->
            IF choices = <<>> THEN None ELSE Some(choices[1])

RECURSIVE EdgeIndicesWalk(_, _, _, _, _)
EdgeIndicesWalk(net, cur, dst, chooser, acc) ==
    IF cur = dst THEN Ok(acc)
    ELSE
        LET hops == NextHops(net.routes, cur, dst)
        IN  IF hops = None THEN Ok(acc)
            ELSE
                LET c == Choose(chooser, hops.val, Len(acc) + 1)
                IN  IF c = Panic THEN Panic
                    ELSE IF c = None THEN Ok(<<>>)
                    ELSE EdgeIndicesWalk(net, c.val, dst, chooser,
                             Append(acc, FindEdge(net.topology, cur, c.val)))

EdgeIndicesBetween(net, src, dst, chooser) ==
    EdgeIndicesWalk(net, src, dst, chooser, <<>>)

(***************************************************************************)
(* utils.rs: par_chunks.  The chunks are processed in parallel and their   *)
(* results arrive on a channel in any order.                               *)
(***************************************************************************)
ChunkSize(nrElems, nrCpus) == Max({nrElems \div nrCpus, 1})

\* data.chunks(size)
Chunks(data, size) ==
    [c \in 1..CeilDiv(Len(data), size) |->
        SubSeq(data, (c - 1) * size + 1, Min({c * size, Len(data)}))]

Perms(n) == {p \in [1..n -> 1..n] : Range(p) = 1..n}

RECURSIVE Flatten(_)
Flatten(ss) == IF ss = <<>> THEN <<>> ELSE Head(ss) \o Flatten(Tail(ss))

\* The items par_chunks yields when the chunk results arrive in `order`.
ParChunks(results, order) == Flatten([k \in DOMAIN order |-> results[order[k]]])

(***************************************************************************)
(* network.rs: Network::into_simulations.                                  *)
(***************************************************************************)
FlowPath(net, h, f) == EdgeIndicesBetween(net, f.src, f.dst, HashChooser(h[f.id]))

\* The closure given to par_chunks, on one chunk.
RECURSIVE ChunkAssignments(_, _, _)
ChunkAssignments(net, h, chunk) ==
    IF chunk = <<>> THEN <<>>
    ELSE LET f == Head(chunk)
             path == FlowPath(net, h, f).val
         IN  [i \in DOMAIN path |-> <<path[i], f>>]
                \o ChunkAssignments(net, h, Tail(chunk))

\* The fold into the map from edge to flows: the flows of edge eidx in the
\* order their assignments arrive.
RECURSIVE AssignedTo(_, _)
AssignedTo(eidx, assignments) ==
    IF assignments = <<>> THEN <<>>
    ELSE IF Head(assignments)[1] = eidx
         THEN <<Head(assignments)[2]>> \o AssignedTo(eidx, Tail(assignments))
         ELSE AssignedTo(eidx, Tail(assignments))

\* A variant that keeps the arrival order.
SortByStart_Unsorted(fs) == fs

\* flows.sort_by_key(|f| f.start), a stable sort.
SortByStart(fs) == StableSortBy(fs, [i \in DOMAIN fs |-> fs[i].start])

Cluster(representative, members) ==
    [representative |-> representative, members |-> members]

\* flows.into_iter().map(|f| (f.id, f)).collect(): a later flow replaces an
\* earlier one with the same id.
FlowMap(fs) ==
    [id \in {fs[i].id : i \in DOMAIN fs} |->
        fs[Max({i \in DOMAIN fs : fs[i].id = id})]]

IntoSimulations(net, fs, h, nrCpus, order) ==
    IF \E i \in DOMAIN fs : FlowPath(net, h, fs[i]) = Panic THEN Panic
    ELSE
        LET t == net.topology
            chunks == Chunks(fs, ChunkSize(Len(fs), nrCpus))
            results == [c \in DOMAIN chunks |-> ChunkAssignments(net, h, chunks[c])]
            assignments == ParChunks(results, order)
            chans == [e \in DOMAIN t.edges |->
                        PushFlows(FlowChannelNewFrom(t.edges[e]),
                                  SortByStart(AssignedTo(e, assignments)))]
        IN  [tag |-> "Sim",
             topology |-> [nodes |-> t.nodes, edges |-> chans, links |-> t.links],
             routes |-> net.routes,
             clusters |-> [e \in DOMAIN t.edges |-> Cluster(e, {e})],
             flows |-> FlowMap(fs)]

(***************************************************************************)
(* f64 values are kept as exact fractions <<numerator, denominator>> in     *)
(* lowest terms with a positive denominator.                               *)
(***************************************************************************)
RECURSIVE Gcd(_, _)
Gcd(a, b) == IF b = 0 THEN a ELSE Gcd(b, a % b)

Abs(x) == IF x < 0 THEN -x ELSE x

Rat(n, d) == LET g == Gcd(Abs(n), d) IN <<n \div g, d \div g>>

RatOf(n) == <<n, 1>>

RatAdd(a, b) == Rat(a[1] * b[2] + b[1] * a[2], a[2] * b[2])

RatSub(a, b) == Rat(a[1] * b[2] - b[1] * a[2], a[2] * b[2])

RatMul(a, b) == Rat(a[1] * b[1], a[2] * b[2])

\* a / b for b > 0
RatDiv(a, b) == Rat(a[1] * b[2], a[2] * b[1])

RatLe(a, b) == a[1] * b[2] <= b[1] * a[2]

RatLt(a, b) == a[1] * b[2] < b[1] * a[2]

\* `x as u64` for x >= 0
RatTrunc(a) == a[1] \div a[2]

RECURSIVE RatSum(_)
RatSum(xs) == IF xs = <<>> THEN RatOf(0) ELSE RatAdd(Head(xs), RatSum(Tail(xs)))

RECURSIVE SortRats(_)
SortRats(S) ==
    IF S = {} THEN <<>>
    ELSE LET m == CHOOSE x \in S : \A y \in S : RatLe(x, y)
         IN  <<m>> \o SortRats(S \ {m})

(***************************************************************************)
(* network/types.rs: FctRecord.                                            *)
(***************************************************************************)
FctRecord(id, size, start, fct, ideal) ==
    [id |-> id, size |-> size, start |-> start, fct |-> fct, ideal |-> ideal]

\* FctRecord::delay
Delay(rec) == IF rec.fct <= rec.ideal THEN 0 ELSE rec.fct - rec.ideal

\* FctRecord::pktnorm_delay
PktnormDelay(rec) == Rat(Delay(rec), NrPkts(rec.size))

(***************************************************************************)
(* edist.rs: EDist and EDistBuckets.                                       *)
(***************************************************************************)
\* Bytes::MAX is u64::MAX in the code; see NanosecsMAX.
BytesMAX == 2147483647

\* The least number of records of a bucket that is closed before the end.
BucketMinLen == 100

\* max.scale_by(0.5): the product is rounded half away from zero.
ScaleByHalf(x) == (x + 1) \div 2

EDistError(kind) == [tag |-> "Err", kind |-> kind]

\* EDist::from_values: the distinct values in ascending order, each with the
\* percentage of values that are not greater (a later point with the same
\* value replaces the earlier one in the map).
FromValues(values) ==
    IF values = <<>> THEN EDistError("NoValues")
    ELSE LET n == Len(values)
             sorted == SortRats(Range(values))
             upTo(v) == Cardinality({i \in 1..n : RatLe(values[i], v)})
         IN  Ok([k \in DOMAIN sorted |-> <<sorted[k], Rat(upTo(sorted[k]) * 100, n)>>])

\* EDist::sample, y being the draw of rng.gen_range(0.0..=100.0)
Sample(ecdf, y) ==
    LET i == Min({k \in DOMAIN ecdf : RatLe(y, ecdf[k][2])})
    IN  IF i = 1 THEN ecdf[1][1]
        ELSE LET x0 == ecdf[i - 1][1]
                 y0 == ecdf[i - 1][2]
                 x1 == ecdf[i][1]
                 y1 == ecdf[i][2]
             IN  RatAdd(x0, RatMul(RatDiv(RatSub(x1, x0), RatSub(y1, y0)),
                                   RatSub(y, y0)))

\* The loop of `bucket` over the records sorted by size, from the record at
\* position p on, with which a new bucket begins: the bucket is closed at the
\* first record at which the test of the loop holds (for the first record
\* of a bucket `min` is Bytes::MAX), and the records left over at the end
\* make the last bucket.
RECURSIVE BucketLoop(_, _, _)
BucketLoop(data, p, buckets) ==
    IF p > Len(data) THEN buckets
    ELSE LET min(q) == IF q = p THEN BytesMAX ELSE data[p].size
             closes == {q \in p..Len(data) :
                          min(q) <= ScaleByHalf(data[q].size)
                             /\ q - p + 1 >= BucketMinLen}
         IN  IF closes = {}
             THEN Append(buckets, [lo |-> data[p].size,
                                   hi |-> data[Len(data)].size + 1,
                                   data |-> SubSeq(data, p, Len(data))])
             ELSE LET q == Min(closes)
                  IN  BucketLoop(data, q + 1,
                                 Append(buckets, [lo |-> min(q),
                                                  hi |-> data[q].size + 1,
                                                  data |-> SubSeq(data, p, q)]))

\* `data.sort_by(|&a, &b| f(a).cmp(&f(b)))`: a stable sort by size, done
\* size after size.
RECURSIVE SortBySize(_, _)
SortBySize(data, sizes) ==
    IF sizes = {} THEN <<>>
    ELSE LET least == Min(sizes)
             HasLeast(rec) == rec.size = least
         IN  SelectSeq(data, HasLeast) \o SortBySize(data, sizes \ {least})

\* edist.rs: bucket, on FCT records with their size.
Bucket(data) ==
    BucketLoop(SortBySize(data, {data[i].size : i \in DOMAIN data}), 1, <<>>)

\* EDistBuckets::fill with the size and the packet-normalized delay of the
\* records: the new buckets, or the error of the first bucket that has one.
Fill(data) ==
    LET buckets == Bucket(data)
        dists == [k \in DOMAIN buckets |->
                    FromValues([i \in DOMAIN buckets[k].data |->
                                    PktnormDelay(buckets[k].data[i])])]
        bad == {k \in DOMAIN dists : dists[k].tag = "Err"}
    IN  IF bad # {} THEN dists[Min(bad)]
        ELSE Ok([k \in DOMAIN buckets |->
                    [lo |-> buckets[k].lo, hi |-> buckets[k].hi, dist |-> dists[k].val]])

\* EDistBuckets::for_size
ForSize(dists, size) ==
    LET hits == {k \in DOMAIN dists : dists[k].lo <= size /\ size < dists[k].hi}
    IN  IF hits = {} THEN None ELSE Some(dists[Min(hits)].dist)

(***************************************************************************)
(* opts.rs, linksim.rs: simulation options and the link simulator.  A link *)
(* simulator is given by the completion times it reports for every flow    *)
(* and by the edges on which it fails.                                     *)
(***************************************************************************)
Worker(id, loopback) == [id |-> id, loopback |-> loopback]

\* SimOpts::is_local
IsLocal(o) == Len(o.workers) = 1 /\ o.workers[1].loopback

SimNetworkError(kind) == [tag |-> "Err", kind |-> kind]

\* LinkSim::simulate: one record per flow of the spec, or an error.
Simulate(linkSim, spec) ==
    IF spec.edge \in linkSim.fails THEN SimNetworkError("LinkSim")
    ELSE Ok([i \in DOMAIN spec.flows |->
                FctRecord(spec.flows[i].id, spec.flows[i].size, spec.flows[i].start,
                          linkSim.fct[spec.flows[i].id][1],
                          linkSim.fct[spec.flows[i].id][2])])

(***************************************************************************)
(* network.rs: SimNetwork::cluster, link_sim_desc, into_delays.            *)
(***************************************************************************)
\* SimNetwork::cluster
SetClusters(s, clusters) == [s EXCEPT !.clusters = clusters]

\* A variant that returns a descriptor for an edge without flows too.
LinkSimDesc_NoEmptyCheck(s, edge) ==
    IF edge \notin DOMAIN s.topology.edges THEN None
    ELSE Some([edge |-> edge, flows |-> s.topology.edges[edge].flows])

\* SimNetwork::link_sim_desc, as far as into_delays uses the descriptor: the
\* edge and the ids of its flows.
LinkSimDesc(s, edge) ==
    IF edge \notin DOMAIN s.topology.edges THEN None
    ELSE IF NrFlows(s.topology.edges[edge]) = 0 THEN None
    ELSE Some([edge |-> edge, flows |-> s.topology.edges[edge].flows])

\* The LinkSimSpec built from a descriptor: the flows are looked up by id.
LinkSimSpec(s, desc) ==
    [edge |-> desc.edge,
     flows |-> [i \in DOMAIN desc.flows |-> s.flows[desc.flows[i]]]]

\* The body of the closure of simulate_clusters_locally for one cluster:
\* the records to send, or the error of the simulator.
SimulateRepresentative(s, linkSim, edge) ==
    LET desc == LinkSimDesc(s, edge)
    IN  IF desc = None THEN Ok(<<>>)
        ELSE Simulate(linkSim, LinkSimSpec(s, desc.val))

\* Collecting pairs (edge, records) into a map: a later pair replaces an
\* earlier one with the same edge.
CollectMap(pairs) ==
    [e \in {pairs[i][1] : i \in DOMAIN pairs} |->
        pairs[Max({i \in DOMAIN pairs : pairs[i][1] = e})][2]]

\* A variant that returns the records collected so far despite a failure.
LocalResult_IgnoreFailure(failed, chan) == Ok(CollectMap(chan))

\* The result of simulate_clusters_locally: try_for_each_with returns the
\* error of a failed task, otherwise the channel is collected.
LocalResult(failed, chan) ==
    IF failed THEN SimNetworkError("LinkSim") ELSE Ok(CollectMap(chan))

\* EDistChannel::new_from
EDistChannelNewFrom(chan) ==
    [src |-> chan.src, dst |-> chan.dst,
     bandwidth |-> chan.bandwidth, delay |-> chan.delay, dists |-> <<>>]

\* A variant that fills a member from the data collected for the member.
DataFor_Member(eidx2data, representative, member) ==
    IF member \in DOMAIN eidx2data THEN eidx2data[member] ELSE <<>>

\* `match eidx2data.get(&representative)`
DataFor(eidx2data, representative, member) ==
    IF representative \in DOMAIN eidx2data THEN eidx2data[representative] ELSE <<>>

\* The loop of into_delays over the clusters, from cluster k on: the
\* channels with their distributions, or the first error of fill.
RECURSIVE FillClusters(_, _, _, _)
FillClusters(edges, clusters, eidx2data, k) ==
    IF k > Len(clusters) THEN Ok(edges)
    ELSE
        LET c == clusters[k]
            toFill == {m \in c.members :
                          DataFor(eidx2data, c.representative, m) # <<>>}
            filled == {<<m, Fill(DataFor(eidx2data, c.representative, m))>> :
                          m \in toFill}
            bad == {p \in filled : p[2].tag = "Err"}
        IN  IF bad # {} THEN SimNetworkError("EDist")
            ELSE FillClusters(
                    [e \in DOMAIN edges |->
                        IF e \in toFill
                        THEN [edges[e] EXCEPT
                                !.dists = (CHOOSE p \in filled : p[1] = e)[2].val]
                        ELSE edges[e]],
                    clusters, eidx2data, k + 1)

\* into_delays once the simulations have returned `simulated`.
IntoDelays(s, simulated) ==
    IF simulated.tag = "Err" THEN simulated
    ELSE
        LET t == s.topology
            edist == [e \in DOMAIN t.edges |-> EDistChannelNewFrom(t.edges[e])]
            filled == FillClusters(edist, s.clusters, simulated.val, 1)
        IN  IF filled.tag = "Err" THEN filled
            ELSE [tag |-> "Ok",
                  topology |-> [nodes |-> t.nodes, edges |-> filled.val,
                                links |-> t.links],
                  routes |-> s.routes]

\* `workers.iter().zip(edges.chunks(chunk_size))`: chunks panics on a chunk
\* size of zero, and zip stops at the shorter of the two.
WorkChunks(edges, nrWorkers) ==
    LET size == Len(edges) \div nrWorkers
    IN  IF size = 0 THEN Panic
        ELSE LET chunks == Chunks(edges, size)
             IN  Ok(SubSeq(chunks, 1, Min({nrWorkers, Len(chunks)})))

\* SimNetwork::assign_work_randomly, `shuffled` being the representatives as
\* the seeded shuffle leaves them.
AssignWorkRandomly(workers, shuffled) ==
    IF workers = <<>> THEN Panic
    ELSE LET chunks == WorkChunks(shuffled, Len(workers))
         IN  IF chunks = Panic THEN Panic
             ELSE Ok([w \in DOMAIN chunks.val |->
                        [worker |-> workers[w], edges |-> chunks.val[w]]])

\* The descriptors sent to a worker: `filter_map(|&edge| self.link_sim_desc(edge))`
RECURSIVE WorkerDescs(_, _)
WorkerDescs(s, edges) ==
    IF edges = <<>> THEN <<>>
    ELSE LET desc == LinkSimDesc(s, Head(edges))
         IN  (IF desc = None THEN <<>> ELSE <<desc.val>>) \o WorkerDescs(s, Tail(edges))

\* distribute.rs: work_remote, with the worker's simulate_chunk on the other
\* side: the pairs (edge, records) of the descriptors, or an error when the
\* exchange fails or the worker's simulator fails on a descriptor.
WorkRemote(s, linkSim, edges, exchangeOk) ==
    LET descs == WorkerDescs(s, edges)
        outs == [i \in DOMAIN descs |-> Simulate(linkSim, LinkSimSpec(s, descs[i]))]
    IN  IF ~exchangeOk THEN SimNetworkError("Exchange")
        ELSE IF \E i \in DOMAIN outs : outs[i].tag = "Err"
             THEN SimNetworkError("Exchange")
        ELSE Ok([i \in DOMAIN descs |-> <<descs[i].edge, outs[i].val>>])

\* The loop over the handles of simulate_clusters: the error of the first
\* handle awaited that has one (the errors of the handles do not differ
\* here), otherwise the collected results.
DistributedResult(handles) ==
    LET bad == {w \in DOMAIN handles : handles[w].tag = "Err"}
    IN  IF bad # {} THEN handles[Min(bad)]
        ELSE Ok(CollectMap(Flatten([w \in DOMAIN handles |-> handles[w].val])))

(***************************************************************************)
(* network.rs: DelayNetwork::predict.  The generator is given by the       *)
(* numbers it draws: one per hop of the path and one per sample.           *)
(***************************************************************************)
\* A variant that leaves out the number of packets.
PredictDelay_NoPkts(size, pktnormDelay) == RatTrunc(pktnormDelay)

\* The closure mapped over the sum of the samples.
PredictDelay(size, pktnormDelay) ==
    RatTrunc(RatMul(RatOf(NrPkts(size)), pktnormDelay))

\* `.map(|chan| chan.dists.for_size(size).map(|dist| dist.sample(rng)))
\*  .sum::<Option<f64>>()` from channel k on.
RECURSIVE SumSamples(_, _, _, _)
SumSamples(channels, size, ys, k) ==
    IF k > Len(channels) THEN Some(RatOf(0))
    ELSE LET dist == ForSize(channels[k].dists, size)
         IN  IF dist = None THEN None
             ELSE LET rest == SumSamples(channels, size, ys, k + 1)
                  IN  IF rest = None THEN None
                      ELSE Some(RatAdd(Sample(dist.val, ys[k]), rest.val))

\* The channels of the path predict realizes from src to dst.
PredictChannels(dn, src, dst, draws) ==
    LET path == EdgeIndicesBetween(dn, src, dst, RngChooser(draws)).val
    IN  [k \in DOMAIN path |-> dn.topology.edges[path[k]]]

Predict(dn, size, src, dst, draws, ys) ==
    LET channels == PredictChannels(dn, src, dst, draws)
    IN  IF channels = <<>> THEN None
        ELSE LET total == SumSamples(channels, size, ys, 1)
             IN  IF total = None THEN None
                 ELSE Some(PredictDelay(size, total.val))

(***************************************************************************)
(* Specification SpecBuild: Topology::new on every small input.            *)
(***************************************************************************)
DefaultBandwidth == 10

DefaultDelay == 1000

\* The node ids of the inputs: enough for a hole, a duplicate and a third node.
BuildIds == 0..2

BuildNodes == {Node(id, k) : id \in BuildIds, k \in NodeKind}

BuildLinks ==
    {Link(a, b, DefaultBandwidth, DefaultDelay) : a \in BuildIds, b \in BuildIds}

InitBuild ==
    /\ pc = "start"
    /\ nodes \in SeqsUpTo(BuildNodes, MaxNodes)
    /\ links \in SeqsUpTo(BuildLinks, MaxLinks)
    /\ network = NoNetwork
    /\ flows = <<>>
    /\ hash = <<>>
    /\ sim = None
    /\ opts = None
    /\ run = None
    /\ delays = None
    /\ prediction = None

NewTopology ==
    /\ pc = "start"
    /\ network' = TopologyNew(nodes, links)
    /\ pc' = "built"
    /\ UNCHANGED <<nodes, links, simVars, delayVars>>

NextBuild == NewTopology

SpecBuild == InitBuild /\ [][NextBuild]_vars


(***************************************************************************)
(* C3: the error Topology::new reports.                                    *)
(***************************************************************************)
\* The checks of Topology::new as conditions on its input.
InputIds == {nodes[i].id : i \in DOMAIN nodes}

LinksAt(id) == {k \in DOMAIN links : links[k].a = id \/ links[k].b = id}

ViolatedChecks ==
    (IF \E i, j \in DOMAIN nodes : i < j /\ nodes[i].id = nodes[j].id
     THEN {"DuplicateNodeId"} ELSE {})
    \cup (IF InputIds # 0..(Cardinality(InputIds) - 1)
          THEN {"HoleBeforeId"} ELSE {})
    \cup (IF \E k \in DOMAIN links : links[k].a = links[k].b
          THEN {"NodeAdjacentSelf"} ELSE {})
    \cup (IF \E k \in DOMAIN links :
                links[k].a \notin InputIds \/ links[k].b \notin InputIds
          THEN {"UndeclaredNode"} ELSE {})
    \cup (IF \E id \in InputIds : LinksAt(id) = {}
          THEN {"IsolatedNode"} ELSE {})
    \cup (IF \E k, m \in DOMAIN links :
                k < m /\ {links[k].a, links[k].b} = {links[m].a, links[m].b}
          THEN {"DuplicateLink"} ELSE {})
    \cup (IF \E i \in DOMAIN nodes :
                nodes[i].kind = "Host" /\ Cardinality(LinksAt(nodes[i].id)) > 1
          THEN {"TooManyHostLinks"} ELSE {})

CheckOrder ==
    <<"DuplicateNodeId", "HoleBeforeId", "NodeAdjacentSelf", "UndeclaredNode",
      "IsolatedNode", "DuplicateLink", "TooManyHostLinks">>

\* The loop of Topology::new a check belongs to.
CheckStage ==
    [k \in Range(CheckOrder) |->
        CASE k \in {"DuplicateNodeId", "HoleBeforeId"} -> 1
          [] k \in {"NodeAdjacentSelf", "UndeclaredNode"} -> 2
          [] k = "IsolatedNode" -> 3
          [] OTHER -> 4]

ResultKind == IF network.tag = "Err" THEN network.kind ELSE network.tag

\* What an accepted topology looks like.
AcceptedShape(t) ==
    /\ \A i \in DOMAIN t.nodes : t.nodes[i].id = i - 1
    /\ \A e \in DOMAIN t.edges :
          /\ t.edges[e].src # t.edges[e].dst
          /\ \A f \in DOMAIN t.edges :
                (t.edges[f].src = t.edges[e].src /\ t.edges[f].dst = t.edges[e].dst)
                    => f = e
    /\ \A i \in DOMAIN t.nodes :
          LET out == {e \in DOMAIN t.edges : t.edges[e].src = i - 1}
          IN  /\ out # {}
              /\ t.nodes[i].kind = "Host" => Cardinality(out) = 1

\* C3 as stated: Topology::new returns the error of the earliest violated
\* check in the fixed order DuplicateNodeId, HoleBeforeId, NodeAdjacentSelf,
\* UndeclaredNode, IsolatedNode, DuplicateLink, TooManyHostLinks, and a
\* topology only when no check is violated.
C3_FixedOrder ==
    pc = "built" =>
        IF ViolatedChecks = {}
        THEN network.tag = "Ok"
        ELSE ResultKind =
                CheckOrder[Min({i \in DOMAIN CheckOrder :
                                    CheckOrder[i] \in ViolatedChecks})]

\* C3 amended: Topology::new returns an error of the earliest violated stage,
\* the stages being {DuplicateNodeId, HoleBeforeId}, {NodeAdjacentSelf,
\* UndeclaredNode}, {IsolatedNode}, {DuplicateLink, TooManyHostLinks}; the
\* error is one of the violated checks of that stage; it returns a topology
\* exactly when no check is violated, and every accepted topology has dense
\* unique ids from 0, no self-link, no isolated node, at most one channel per
\* ordered node pair and exactly one link per host.
C3_StageOrder ==
    pc = "built" =>
        /\ network.tag = "Ok" <=> ViolatedChecks = {}
        /\ network.tag = "Err" =>
              /\ network.kind \in ViolatedChecks
              /\ \A k \in ViolatedChecks : CheckStage[network.kind] <= CheckStage[k]
        /\ network.tag = "Ok" => AcceptedShape(network)

\* Topology::new has run on an input that violates two checks of one stage
\* and reported the later one of the fixed order.
C3_Witness ==
    /\ pc = "built"
    /\ network.tag = "Err"
    /\ network.kind = "HoleBeforeId"
    /\ "DuplicateNodeId" \in ViolatedChecks


(***************************************************************************)
(* Specification SpecRoutes: Network::new on every topology of up to       *)
(* MaxRouteNodes nodes with ids 0..n-1, each link given once, in ascending *)
(* order (a, b), a < b, or in descending order with the endpoints swapped. *)
(***************************************************************************)
MaxRouteNodes == 4

RECURSIVE PairSeq(_)
PairSeq(S) ==
    IF S = {} THEN <<>>
    ELSE LET m == CHOOSE p \in S :
                    \A q \in S : p[1] < q[1] \/ (p[1] = q[1] /\ p[2] <= q[2])
         IN  <<m>> \o PairSeq(S \ {m})

Reverse(s) == [i \in DOMAIN s |-> s[Len(s) + 1 - i]]

RouteLinks(S, rev) ==
    LET ps == PairSeq(S)
        fwd == [i \in DOMAIN ps |->
                    Link(ps[i][1], ps[i][2], DefaultBandwidth, DefaultDelay)]
        bwd == [i \in DOMAIN ps |->
                    Link(ps[i][2], ps[i][1], DefaultBandwidth, DefaultDelay)]
    IN  IF rev THEN Reverse(bwd) ELSE fwd

InitRoutes ==
    /\ pc = "start"
    /\ \E n \in 1..MaxRouteNodes :
          /\ nodes \in {[i \in 1..n |-> Node(i - 1, kinds[i])] :
                            kinds \in [1..n -> NodeKind]}
          /\ \E S \in SUBSET {p \in (0..(n - 1)) \X (0..(n - 1)) : p[1] < p[2]},
                rev \in BOOLEAN :
                links = RouteLinks(S, rev)
    /\ network = NoNetwork
    /\ flows = <<>>
    /\ hash = <<>>
    /\ sim = None
    /\ opts = None
    /\ run = None
    /\ delays = None
    /\ prediction = None

NewNetwork ==
    /\ pc = "start"
    /\ network' = NetworkNew(nodes, links)
    /\ pc' = "routed"
    /\ UNCHANGED <<nodes, links, simVars, delayVars>>

NextRoutes == NewNetwork

SpecRoutes == InitRoutes /\ [][NextRoutes]_vars

(***************************************************************************)
(* C2: the BFS route table.                                                *)
(***************************************************************************)
\* No shortest path of t has as many hops as t has nodes.
Unreachable(t) == Len(t.nodes)

\* The neighbours of x in topology t.
Adjacent(t, x) == {t.edges[e].dst : e \in {f \in DOMAIN t.edges : t.edges[f].src = x}}

\* Hop counts are kept as a set of pairs <<node, hops>>.
HopsIn(D, x) == (CHOOSE p \in D : p[1] = x)[2]

\* One round of relaxation of the hop counts D towards `to`: a path may
\* continue through y only if y is `to` itself or a switch.
Relax(t, to, D) ==
    {<<x, IF x = to THEN 0
          ELSE LET via == {HopsIn(D, y) + 1 : y \in {z \in Adjacent(t, x) :
                              /\ HopsIn(D, z) # Unreachable(t)
                              /\ (z = to \/ t.nodes[z + 1].kind = "Switch")}}
               IN  IF via = {} THEN HopsIn(D, x) ELSE Min(via \cup {HopsIn(D, x)})>> :
        x \in NodeIdxs(t)}

\* The hop count of the shortest path from every node to `to` whose interior
\* nodes are all switches: k rounds give the paths of at most k hops.
RECURSIVE DistTo(_, _, _)
DistTo(t, to, k) ==
    IF k = 0 THEN {<<x, IF x = to THEN 0 ELSE Unreachable(t)>> : x \in NodeIdxs(t)}
    ELSE Relax(t, to, DistTo(t, to, k - 1))

Dist(t, to) == DistTo(t, to, Len(t.nodes))

\* hops[from][to] is what C2 says it is, D being the hop counts towards `to`.
RouteEntryOk(t, hops, D, from, to) ==
    /\ Range(hops[from][to])
          = {n \in Adjacent(t, from) : HopsIn(D, n) = HopsIn(D, from) - 1}
    /\ Cardinality(Range(hops[from][to])) = Len(hops[from][to])
    /\ hops[from][to] # <<>> <=> HopsIn(D, from) # Unreachable(t)

Hosts(t) == {x \in NodeIdxs(t) : t.nodes[x + 1].kind = "Host"}

\* C2: for every accepted topology and every ordered pair of distinct nodes,
\* hops[from][to] holds exactly the neighbours of `from` that are one hop
\* nearer to `to`, each once; it is non-empty iff `to` is reachable from
\* `from`; and for two distinct hosts the entries of both directions are both
\* empty or both non-empty.
C2_BfsRoutes ==
    (pc = "routed" /\ network.tag = "Ok") =>
        LET t == network.topology
            hops == network.routes
        IN  /\ \A to \in NodeIdxs(t) :
                 \A D \in {Dist(t, to)} :
                    \A from \in NodeIdxs(t) \ {to} :
                        RouteEntryOk(t, hops, D, from, to)
            /\ \A a, b \in Hosts(t) :
                 a # b => (hops[a][b] = <<>> <=> hops[b][a] = <<>>)

\* Routes have been built for a topology in which some node has two
\* equal-cost next hops towards another.
C2_Witness ==
    /\ pc = "routed"
    /\ network.tag = "Ok"
    /\ \E from, to \in NodeIdxs(network.topology) :
          Len(network.routes[from][to]) = 2

(***************************************************************************)
(* Specification Spec: Network::new followed by into_simulations, on the   *)
(* three-node configuration of testing.rs and on a configuration with two  *)
(* equal-cost paths between its two hosts, for every list of up to         *)
(* MaxFlows flows between hosts, every hash of the flow ids, one or several *)
(* CPUs and every arrival order of the chunk results.                      *)
(***************************************************************************)
MaxFlows == 2

\* num_cpus::get(): one CPU gives a single chunk, two or more give chunks of
\* one flow each for the lists considered here.
CpuCounts == 1..2

\* testing.rs: three_node_config
ThreeNodeConfig ==
    [nodes |-> <<Node(0, "Host"), Node(1, "Host"), Node(2, "Switch")>>,
     links |-> <<Link(0, 2, DefaultBandwidth, DefaultDelay),
                 Link(1, 2, DefaultBandwidth, DefaultDelay)>>]

\* Hosts 0 and 1 behind switches 2 and 5, which are joined through 3 and
\* through 4.
DiamondConfig ==
    [nodes |-> <<Node(0, "Host"), Node(1, "Host"), Node(2, "Switch"),
                 Node(3, "Switch"), Node(4, "Switch"), Node(5, "Switch")>>,
     links |-> <<Link(0, 2, DefaultBandwidth, DefaultDelay),
                 Link(2, 3, DefaultBandwidth, DefaultDelay),
                 Link(2, 4, DefaultBandwidth, DefaultDelay),
                 Link(3, 5, DefaultBandwidth, DefaultDelay),
                 Link(4, 5, DefaultBandwidth, DefaultDelay),
                 Link(5, 1, DefaultBandwidth, DefaultDelay)>>]

Configs == {ThreeNodeConfig, DiamondConfig}

FlowIds == 0..1

\* Sizes of one packet and of two packets.
FlowSizes == {1000, 1001}

FlowStarts == {1000000000, 2000000000}

\* Values of the 64-bit hash: both parities, and not below the number of
\* next-hop choices.
HashValues == {4, 7}

HostIds(ns) == {ns[i].id : i \in {j \in DOMAIN ns : ns[j].kind = "Host"}}

\* The flows that meet the precondition of into_simulations: between two hosts.
FlowsBetween(hosts) ==
    {f \in {Flow(id, src, dst, size, start) :
                id \in FlowIds, src \in hosts, dst \in hosts,
                size \in FlowSizes, start \in FlowStarts} : f.src # f.dst}

Init ==
    /\ pc = "start"
    /\ \E cfg \in Configs : nodes = cfg.nodes /\ links = cfg.links
    /\ network = NoNetwork
    /\ flows = <<>>
    /\ hash = <<>>
    /\ sim = None
    /\ opts = None
    /\ run = None
    /\ delays = None
    /\ prediction = None

\* into_simulations on a list of flows between hosts of the network.
RunIntoSimulations ==
    /\ pc = "routed"
    /\ network.tag = "Ok"
    /\ flows' \in SeqsUpTo(FlowsBetween(HostIds(nodes)), MaxFlows)
    /\ hash' \in [FlowIds -> HashValues]
    /\ \E nrCpus \in CpuCounts :
          \E order \in Perms(Len(Chunks(flows', ChunkSize(Len(flows'), nrCpus)))) :
              sim' = IntoSimulations(network, flows', hash', nrCpus, order)
    /\ pc' = "simulated"
    /\ UNCHANGED <<nodes, links, network, delayVars>>

Next ==
    \/ NewNetwork
    \/ RunIntoSimulations

Spec == Init /\ [][Next]_vars

(***************************************************************************)
(* C1, C4, C5: what into_simulations puts on the channels.                 *)
(***************************************************************************)
Simulated == pc = "simulated" /\ sim.tag = "Sim"

DistinctIds(fs) == \A i, j \in DOMAIN fs : fs[i].id = fs[j].id => i = j

\* The edges whose flow list contains id.
EdgesCarrying(t, id) == {e \in DOMAIN t.edges : id \in Range(t.edges[e].flows)}

\* The edges of E, walked from cur, form a simple directed path to dst.
RECURSIVE IsSimplePath(_, _, _, _, _)
IsSimplePath(t, E, cur, dst, visited) ==
    IF E = {} THEN cur = dst
    ELSE LET out == {e \in E : t.edges[e].src = cur}
         IN  /\ Cardinality(out) = 1
             /\ \A e \in out :
                   /\ t.edges[e].dst \notin visited
                   /\ IsSimplePath(t, E \ {e}, t.edges[e].dst, dst,
                                   visited \cup {t.edges[e].dst})

FlowOnSimplePath(t, f) ==
    IsSimplePath(t, EdgesCarrying(t, f.id), f.src, f.dst, {f.src})

\* C1 as stated: for every flow f of the SimNetwork, the edges whose flow
\* list contains f.id form one simple directed path from f.src to f.dst.
C1_SimplePath ==
    Simulated =>
        \A id \in DOMAIN sim.flows : FlowOnSimplePath(sim.topology, sim.flows[id])

\* C1 amended: when the ids of the flows given to into_simulations are
\* pairwise distinct, for every flow f of the SimNetwork the edges whose flow
\* list contains f.id form one simple directed path from f.src to f.dst.
C1_SimplePathDistinctIds ==
    (Simulated /\ DistinctIds(flows)) =>
        \A id \in DOMAIN sim.flows : FlowOnSimplePath(sim.topology, sim.flows[id])

\* into_simulations has placed two flows with distinct ids, one in each
\* direction, one of them on a path of four edges.
C1_Witness ==
    /\ Simulated
    /\ DistinctIds(flows)
    /\ Len(flows) = 2
    /\ flows[1].src # flows[2].src
    /\ Cardinality(EdgesCarrying(sim.topology, flows[1].id)) = 4

\* The flows a channel lists, looked up by id in the flows of the SimNetwork.
Listed(s, chan) == [i \in DOMAIN chan.flows |-> s.flows[chan.flows[i]]]

RECURSIVE SumSizes(_)
SumSizes(fs) == IF fs = <<>> THEN 0 ELSE Head(fs).size + SumSizes(Tail(fs))

ChannelSummaryOk(s, chan) ==
    LET listed == Listed(s, chan)
        starts == {listed[i].start : i \in DOMAIN listed}
    IN  /\ \A i, j \in DOMAIN listed : i < j => listed[i].start <= listed[j].start
        /\ NrFlows(chan) = Len(listed)
        /\ chan.nr_bytes = SumSizes(listed)
        /\ \A i \in DOMAIN listed :
              listed[i].src \in chan.flow_srcs /\ listed[i].dst \in chan.flow_dsts
        /\ listed # <<>> =>
              chan.flow_start = Min(starts) /\ chan.flow_end = Max(starts)

\* C4 as stated: after into_simulations, on every FlowChannel the listed
\* flows are in ascending order of start time, nr_flows is the length of the
\* list, nr_bytes the sum of the sizes of the listed flows, flow_srcs and
\* flow_dsts contain their sources and destinations, and flow_start and
\* flow_end are their least and greatest start time.
C4_ChannelSummary ==
    Simulated =>
        \A e \in DOMAIN sim.topology.edges :
            ChannelSummaryOk(sim, sim.topology.edges[e])

\* C4 amended: the same, when the ids of the flows given to into_simulations
\* are pairwise distinct.
C4_ChannelSummaryDistinctIds ==
    (Simulated /\ DistinctIds(flows)) =>
        \A e \in DOMAIN sim.topology.edges :
            ChannelSummaryOk(sim, sim.topology.edges[e])

\* into_simulations was given two flows with distinct ids, the later one
\* first, and a channel lists both.
C4_Witness ==
    /\ Simulated
    /\ DistinctIds(flows)
    /\ Len(flows) = 2
    /\ flows[1].start > flows[2].start
    /\ flows[1].size # flows[2].size
    /\ \E e \in DOMAIN sim.topology.edges :
          sim.topology.edges[e].flows = <<flows[2].id, flows[1].id>>

\* The hops <<u, v>> of the walk from cur to dst that takes, at every node,
\* the next-hop choice at index h mod k of the k choices of the route table.
RECURSIVE PinnedHops(_, _, _, _)
PinnedHops(routes, h, cur, dst) ==
    IF cur = dst \/ routes[cur][dst] = <<>> THEN {}
    ELSE LET choices == routes[cur][dst]
             nxt == choices[(h % Len(choices)) + 1]
         IN  {<<cur, nxt>>} \cup PinnedHops(routes, h, nxt, dst)

\* C5: a channel u -> v lists the id of a flow exactly when <<u, v>> is a
\* hop of the walk fixed by the route table, the hash of the flow's id and
\* the flow's src and dst; the flow's size and start, the other flows, the
\* number of chunks and the order in which the chunks finish play no part.
C5_HashPinnedPath ==
    Simulated =>
        LET t == sim.topology
            hopsOf(f) == PinnedHops(sim.routes, hash[f.id], f.src, f.dst)
        IN  /\ \A i \in DOMAIN flows :
                 \A hop \in hopsOf(flows[i]) :
                    \E e \in DOMAIN t.edges :
                        /\ t.edges[e].src = hop[1]
                        /\ t.edges[e].dst = hop[2]
                        /\ flows[i].id \in Range(t.edges[e].flows)
            /\ \A e \in DOMAIN t.edges :
                 \A id \in Range(t.edges[e].flows) :
                    \E i \in DOMAIN flows :
                        /\ flows[i].id = id
                        /\ <<t.edges[e].src, t.edges[e].dst>> \in hopsOf(flows[i])

\* into_simulations has routed two flows with the same endpoints and hashes
\* of different parity over the two equal-cost paths, the chunk of the second
\* flow finishing first.
C5_Witness ==
    /\ Simulated
    /\ Len(flows) = 2
    /\ flows[1].src = flows[2].src
    /\ flows[1].id # flows[2].id
    /\ hash[flows[1].id] % 2 # hash[flows[2].id] % 2
    /\ flows[1].start = flows[2].start
    /\ \E e \in DOMAIN sim.topology.edges :
          /\ sim.topology.edges[e].flows = <<flows[2].id, flows[1].id>>
    /\ \E e \in DOMAIN sim.topology.edges :
          /\ sim.topology.edges[e].flows = <<flows[1].id>>

(***************************************************************************)
(* Specification SpecDelays: into_delays on the three-node network, with   *)
(* every clustering of its edges, locally and with remote workers.  The    *)
(* tasks of the parallel iterator and the exchanges with the workers are   *)
(* steps of their own, taken in any order.                                 *)
(***************************************************************************)
MaxDelayFlows == 2

MaxWorkers == 2

DelayFlowIds == 0..(MaxDelayFlows - 1)

\* Lists of flows between hosts: the id of a flow is its position, and the
\* flows with an even id have one packet, the others two.
DelayFlowLists(hosts) ==
    {fs \in SeqsUpTo({f \in {Flow(id, src, dst,
                                  IF id % 2 = 0 THEN Min(FlowSizes) ELSE Max(FlowSizes),
                                  Min(FlowStarts)) :
                                id \in DelayFlowIds, src \in hosts, dst \in hosts} :
                        f.src # f.dst},
                     MaxDelayFlows) :
        \A i \in DOMAIN fs : fs[i].id = i - 1}

\* Completion times and ideal completion times a simulator reports: no
\* delay for any flow, or a delay of 401 ns and more that grows with the id.
FctProfiles ==
    {[id \in DelayFlowIds |-> <<900, 1000>>],
     [id \in DelayFlowIds |-> <<1401 + 1000 * id, 1000>>]}

\* Simulators that fail on no edge or on one edge.
LinkSims(edges) ==
    {[fct |-> fct, fails |-> fails] :
        fct \in FctProfiles, fails \in {{}} \cup {{e} : e \in edges}}

WorkerLists ==
    {<<Worker(1, TRUE)>>} \cup
    {[w \in 1..k |-> Worker(w, FALSE)] : k \in 1..MaxWorkers}

RECURSIVE SortedSeq(_)
SortedSeq(S) ==
    IF S = {} THEN <<>> ELSE <<Min(S)>> \o SortedSeq(S \ {Min(S)})

\* The clusters a clustering algorithm returns: a partition of the edges,
\* each part with one of its edges as representative.  r maps an edge to
\* the representative of its cluster.
ClustersOf(r) ==
    LET reps == SortedSeq(Range(r))
    IN  [k \in DOMAIN reps |->
            Cluster(reps[k], {e \in DOMAIN r : r[e] = reps[k]})]

Clusterings(edges) ==
    {ClustersOf(r) : r \in {f \in [edges -> edges] : \A e \in edges : f[f[e]] = f[e]}}

Representatives(s) == [k \in DOMAIN s.clusters |-> s.clusters[k].representative]

\* The orders a shuffle can leave a list in.
Shuffles(s) == {[k \in DOMAIN s |-> s[p[k]]] : p \in Perms(Len(s))}

\* The state of a call of into_delays: the clusters whose task has not run,
\* the channel of the local tasks, the assignment of work and the handles of
\* the exchanges with the workers; and for the record, the edges passed to
\* a simulator, whether a simulation or an exchange has failed, and whether
\* an exchange has failed for its own reasons.
IntoDelaysRun(mode, todo, assignments) ==
    [mode |-> mode, todo |-> todo, chan |-> <<>>,
     assignments |-> assignments,
     handles |-> IF assignments.tag = "Ok"
                 THEN [w \in DOMAIN assignments.val |-> None] ELSE <<>>,
     simulated |-> {}, failed |-> FALSE, exchangeFailed |-> FALSE]

InitDelays ==
    /\ pc = "start"
    /\ nodes = ThreeNodeConfig.nodes
    /\ links = ThreeNodeConfig.links
    /\ network = NoNetwork
    /\ flows = <<>>
    /\ hash = <<>>
    /\ sim = None
    /\ opts = None
    /\ run = None
    /\ delays = None
    /\ prediction = None

\* into_simulations on one CPU, on one of `lists` with one of `hashes`.
IntoSimulationsOn(lists, hashes) ==
    /\ pc = "routed"
    /\ network.tag = "Ok"
    /\ flows' \in lists
    /\ hash' \in hashes
    /\ \E order \in Perms(Len(Chunks(flows', ChunkSize(Len(flows'), 1)))) :
          sim' = IntoSimulations(network, flows', hash', 1, order)
    /\ pc' = "simulated"
    /\ UNCHANGED <<nodes, links, network, delayVars>>

RunIntoSimulationsOnce ==
    IntoSimulationsOn(DelayFlowLists(HostIds(nodes)),
                      {[id \in DelayFlowIds |-> Min(HashValues)]})

\* SimNetwork::cluster with an algorithm that returns `clusters`.
RunCluster ==
    /\ pc = "simulated"
    /\ sim.tag = "Sim"
    /\ \E clusters \in Clusterings(DOMAIN sim.topology.edges) :
          sim' = SetClusters(sim, clusters)
    /\ pc' = "clustered"
    /\ UNCHANGED <<nodes, links, network, flows, hash, delayVars>>

\* into_delays up to the start of the simulations: locally the tasks of all
\* clusters are to run, otherwise the work is assigned to the workers.
StartIntoDelays ==
    /\ pc = "clustered"
    /\ \E linkSim \in LinkSims(DOMAIN sim.topology.edges), workers \in WorkerLists :
          /\ opts' = [link_sim |-> linkSim, workers |-> workers]
          /\ IF IsLocal(opts')
             THEN /\ run' = IntoDelaysRun("local", DOMAIN sim.clusters, Ok(<<>>))
                  /\ pc' = "local"
             ELSE \E shuffled \in Shuffles(Representatives(sim)) :
                      LET assignments == AssignWorkRandomly(workers, shuffled)
                      IN  /\ run' = IntoDelaysRun("distributed", {}, assignments)
                          /\ pc' = IF assignments = Panic THEN "panicked"
                                   ELSE "distributed"
    /\ UNCHANGED <<nodes, links, network, simVars, delays, prediction>>

\* One task of the parallel iterator of simulate_clusters_locally.
LocalTask ==
    /\ pc = "local"
    /\ \E c \in run.todo :
          LET edge == sim.clusters[c].representative
              out == SimulateRepresentative(sim, opts.link_sim, edge)
          IN  run' = [run EXCEPT
                        !.todo = @ \ {c},
                        !.simulated = IF LinkSimDesc(sim, edge) = None
                                      THEN @ ELSE @ \cup {edge},
                        !.failed = @ \/ out.tag = "Err",
                        !.chan = IF out.tag = "Ok"
                                 THEN Append(@, <<edge, out.val>>) ELSE @]
    /\ UNCHANGED <<pc, nodes, links, network, simVars, opts, delays, prediction>>

\* The rest of into_delays in local mode, once all tasks have run or one
\* has failed.
FinishLocal ==
    /\ pc = "local"
    /\ run.todo = {} \/ run.failed
    /\ delays' = IntoDelays(sim, LocalResult(run.failed, run.chan))
    /\ pc' = "done"
    /\ UNCHANGED <<nodes, links, network, simVars, opts, run, prediction>>

\* The exchange with one worker, which fails or not.
WorkerTask ==
    /\ pc = "distributed"
    /\ \E w \in DOMAIN run.handles, exchangeOk \in BOOLEAN :
          /\ run.handles[w] = None
          /\ LET edges == run.assignments.val[w].edges
                 descs == WorkerDescs(sim, edges)
                 out == WorkRemote(sim, opts.link_sim, edges, exchangeOk)
             IN  run' = [run EXCEPT
                           !.handles[w] = out,
                           !.simulated = @ \cup {descs[i].edge : i \in DOMAIN descs},
                           !.failed = @ \/ out.tag = "Err",
                           !.exchangeFailed = @ \/ ~exchangeOk]
    /\ UNCHANGED <<pc, nodes, links, network, simVars, opts, delays, prediction>>

\* The rest of into_delays in distributed mode: the handles are awaited
\* one after the other, in the order par_bridge has left them in, up to the
\* first that has failed.
FinishDistributed ==
    /\ pc = "distributed"
    /\ LET pending == {w \in DOMAIN run.handles : run.handles[w] = None}
           bad == {w \in DOMAIN run.handles : run.handles[w].tag = "Err"}
       IN  pending = {} \/ bad # {}
    /\ delays' = IntoDelays(sim, DistributedResult(run.handles))
    /\ pc' = "done"
    /\ UNCHANGED <<nodes, links, network, simVars, opts, run, prediction>>

NextDelays ==
    \/ NewNetwork
    \/ RunIntoSimulationsOnce
    \/ RunCluster
    \/ StartIntoDelays
    \/ LocalTask
    \/ FinishLocal
    \/ WorkerTask
    \/ FinishDistributed

SpecDelays == InitDelays /\ [][NextDelays]_vars


(***************************************************************************)
(* Properties of into_delays.                                              *)
(***************************************************************************)
\* into_delays has returned a DelayNetwork.
Succeeded == pc = "done" /\ delays.tag = "Ok"

EmptyEdges(s) ==
    {e \in DOMAIN s.topology.edges : NrFlows(s.topology.edges[e]) = 0}

RepresentativeOf(s, e) ==
    s.clusters[CHOOSE k \in DOMAIN s.clusters :
                  e \in s.clusters[k].members].representative

\* The records the simulator has returned for a representative in this
\* call: none if the representative was not passed to it.
RecordsOf(representative) ==
    IF representative \in run.simulated
    THEN Simulate(opts.link_sim,
                  LinkSimSpec(sim, LinkSimDesc(sim, representative).val))
    ELSE Ok(<<>>)

\* The size-bucketed distribution built from records: no buckets from no
\* records.
DistsOf(records) == IF records = <<>> THEN <<>> ELSE Fill(records).val

\* Sizes to predict for: the sizes of the flows and one more.
QuerySizes == FlowSizes \cup {Max(FlowSizes) + 1}

\* Draws of rng.gen_range(0.0..=100.0)
SampleDraws == {RatOf(30), RatOf(75)}

\* C6: once into_delays has succeeded, every member edge of every cluster
\* holds the size-bucketed distribution built from the FCT records the
\* simulator returned for the representative of the cluster (the empty
\* distribution if there are none), whatever flows the member itself
\* carries; so all members of a cluster hold the same buckets.
C6_MembersHoldRepresentative ==
    Succeeded =>
        \A k \in DOMAIN sim.clusters :
            LET c == sim.clusters[k]
                records == RecordsOf(c.representative)
            IN  /\ records.tag = "Ok"
                /\ \A m \in c.members :
                      delays.topology.edges[m].dists = DistsOf(records.val)
                /\ \A m1, m2 \in c.members :
                      delays.topology.edges[m1].dists = delays.topology.edges[m2].dists

\* A cluster of two edges that carry different flows, the member holding
\* the buckets of the one-packet flow of the representative.
C6_Witness ==
    /\ Succeeded
    /\ \E k \in DOMAIN sim.clusters :
          \E m \in sim.clusters[k].members :
              LET r == sim.clusters[k].representative
              IN  /\ m # r
                  /\ sim.topology.edges[r].flows = <<0>>
                  /\ sim.topology.edges[m].flows = <<1>>
                  /\ delays.topology.edges[m].dists # <<>>
                  /\ delays.topology.edges[m].dists[1].lo = Min(FlowSizes)

\* C7: in distributed mode assign_work_randomly hands every cluster
\* representative to exactly one worker: the chunks of the workers are
\* pairwise disjoint and together they are all representatives, for every
\* number of representatives and every non-empty list of workers.
C7_EveryRepresentativeAssigned ==
    (pc \in {"distributed", "panicked"}) =>
        /\ run.assignments.tag = "Ok"
        /\ LET a == run.assignments.val
           IN  /\ \A i, j \in DOMAIN a :
                     i # j => Range(a[i].edges) \cap Range(a[j].edges) = {}
               /\ UNION {Range(a[i].edges) : i \in DOMAIN a}
                     = Range(Representatives(sim))

\* C8: if the link simulator has failed for a cluster representative, or
\* the exchange with a worker has failed, into_delays (and with it run,
\* which returns what into_delays returns) returns an error and no
\* DelayNetwork, whatever the other representatives have produced.
C8_FailureReturnsError ==
    (pc = "done" /\ run.failed) =>
        /\ delays.tag = "Err"
        /\ "topology" \notin DOMAIN delays

\* A local call in which one task has failed after another has sent the
\* records of its representative.
C8_Witness ==
    /\ pc = "done"
    /\ run.mode = "local"
    /\ run.failed
    /\ \E i \in DOMAIN run.chan : run.chan[i][2] # <<>>
    /\ delays.tag = "Err"

\* Generators that draw the same number at every hop of a path.
HopDraws(dn) == {[k \in 1..Len(dn.topology.nodes) |-> d] : d \in 0..1}

\* predict returns None for every size over every path that includes e.
NoPredictionOver(dn, e) ==
    \A src \in NodeIdxs(dn.topology), dst \in NodeIdxs(dn.topology) :
        \A draws \in HopDraws(dn) :
            LET path == EdgeIndicesBetween(dn, src - 1, dst - 1, RngChooser(draws)).val
            IN  e \in Range(path) =>
                    \A size \in QuerySizes, ys \in [DOMAIN path -> SampleDraws] :
                        Predict(dn, size, src - 1, dst - 1, draws, ys) = None

InIntoDelays == pc \in {"local", "distributed", "done"}

\* The parts of C9 that hold for every clustering: an edge without flows
\* has no descriptor and is not passed to a simulator, and a simulator that
\* would fail on such edges only does not make into_delays fail.
EmptyEdgesNotSimulated ==
    /\ \A e \in EmptyEdges(sim) :
          LinkSimDesc(sim, e) = None /\ e \notin run.simulated
    /\ (pc = "done" /\ opts.link_sim.fails \subseteq EmptyEdges(sim)
            /\ ~run.exchangeFailed) => delays.tag = "Ok"

\* C9 as stated: an edge that carries no flows is never passed to the link
\* simulator and causes no error in into_delays, and in the resulting
\* DelayNetwork its distribution is empty, so that predict returns None for
\* any size over a path that includes the edge.
C9_EmptyEdgeEmptyDistribution ==
    InIntoDelays =>
        /\ EmptyEdgesNotSimulated
        /\ Succeeded =>
              \A e \in EmptyEdges(sim) :
                  /\ delays.topology.edges[e].dists = <<>>
                  /\ NoPredictionOver(delays, e)

\* C9, amended: an edge that carries no flows is never passed to the link
\* simulator and causes no error in into_delays; in the resulting
\* DelayNetwork its distribution is empty if the representative of its
\* cluster carries no flows either, and predict returns None for any size
\* over a path that includes an edge whose distribution is empty.
C9_EmptyEdgeOfEmptyRepresentative ==
    InIntoDelays =>
        /\ EmptyEdgesNotSimulated
        /\ Succeeded =>
              \A e \in EmptyEdges(sim) :
                  /\ RepresentativeOf(sim, e) \in EmptyEdges(sim)
                        => delays.topology.edges[e].dists = <<>>
                  /\ delays.topology.edges[e].dists = <<>>
                        => NoPredictionOver(delays, e)

\* The simulator fails on an edge without flows, which is left with an
\* empty distribution, while another edge without flows holds the
\* distribution of its representative.
C9_Witness ==
    /\ Succeeded
    /\ \E e1, e2 \in EmptyEdges(sim) :
          /\ opts.link_sim.fails = {e1}
          /\ delays.topology.edges[e1].dists = <<>>
          /\ delays.topology.edges[e2].dists # <<>>

(***************************************************************************)
(* Specification SpecPredict: predict on the DelayNetwork of the three-    *)
(* node network and of the diamond, with the default clusters and a        *)
(* simulator that does not fail.                                           *)
(***************************************************************************)
\* Lists of flows between hosts whose ids are their positions.
PredictFlowLists(hosts) ==
    {fs \in SeqsUpTo({f \in {Flow(id, src, dst, size, Min(FlowStarts)) :
                                id \in DelayFlowIds, src \in hosts, dst \in hosts,
                                size \in FlowSizes} : f.src # f.dst},
                     MaxDelayFlows) :
        \A i \in DOMAIN fs : fs[i].id = i - 1}

InitPredict ==
    /\ pc = "start"
    /\ \E cfg \in Configs : nodes = cfg.nodes /\ links = cfg.links
    /\ network = NoNetwork
    /\ flows = <<>>
    /\ hash = <<>>
    /\ sim = None
    /\ opts = None
    /\ run = None
    /\ delays = None
    /\ prediction = None

RunIntoSimulationsHashed ==
    IntoSimulationsOn(PredictFlowLists(HostIds(nodes)), [DelayFlowIds -> HashValues])

\* into_delays in local mode, the tasks running one after the other in the
\* order of the clusters.
RunIntoDelays ==
    /\ pc = "simulated"
    /\ sim.tag = "Sim"
    /\ \E fct \in FctProfiles :
          /\ opts' = [link_sim |-> [fct |-> fct, fails |-> {}],
                      workers |-> <<Worker(1, TRUE)>>]
          /\ LET chan == [k \in DOMAIN sim.clusters |->
                            <<sim.clusters[k].representative,
                              SimulateRepresentative(
                                  sim, opts'.link_sim,
                                  sim.clusters[k].representative).val>>]
             IN  /\ run' = [IntoDelaysRun("local", {}, Ok(<<>>)) EXCEPT
                              !.chan = chan,
                              !.simulated = {e \in DOMAIN sim.topology.edges :
                                                LinkSimDesc(sim, e) # None}]
                 /\ delays' = IntoDelays(sim, LocalResult(FALSE, chan))
    /\ pc' = "done"
    /\ UNCHANGED <<nodes, links, network, simVars, prediction>>

\* predict for a size between two hosts, with a generator that draws
\* `draws` for the hops and `ys` for the samples.
RunPredict ==
    /\ pc = "done"
    /\ delays.tag = "Ok"
    /\ \E size \in QuerySizes, src \in HostIds(nodes), dst \in HostIds(nodes),
          draws \in HopDraws(delays) :
          \E ys \in [DOMAIN PredictChannels(delays, src, dst, draws) -> SampleDraws] :
              prediction' = [size |-> size, src |-> src, dst |-> dst,
                             draws |-> draws, ys |-> ys,
                             result |-> Predict(delays, size, src, dst, draws, ys)]
    /\ pc' = "predicted"
    /\ UNCHANGED <<nodes, links, network, simVars, opts, run, delays>>

NextPredict ==
    \/ NewNetwork
    \/ RunIntoSimulationsHashed
    \/ RunIntoDelays
    \/ RunPredict

SpecPredict == InitPredict /\ [][NextPredict]_vars

\* The edges of the path a prediction was made over.
RealizedPath(p) ==
    EdgeIndicesBetween(delays, p.src, p.dst, RngChooser(p.draws)).val

\* The buckets of an edge that contain the size.
BucketsFor(e, size) ==
    LET dists == delays.topology.edges[e].dists
    IN  {i \in DOMAIN dists : dists[i].lo <= size /\ size < dists[i].hi}

\* ceil(size / 1000) times the sum over the edges of the path of the sample
\* drawn from the bucket of the edge for the size.
SampledDelay(p) ==
    LET path == RealizedPath(p)
        sample(k) == Sample(delays.topology.edges[path[k]]
                                .dists[Min(BucketsFor(path[k], p.size))].dist,
                            p.ys[k])
        pkts == CHOOSE n \in 0..p.size :
                    n * SZ_PKTMAX >= p.size /\ (n - 1) * SZ_PKTMAX < p.size
    IN  RatMul(RatOf(pkts), RatSum([k \in DOMAIN path |-> sample(k)]))

\* C10: predict returns None when no path from src to dst is realized or
\* some edge of the realized path has no bucket that contains the size;
\* otherwise it returns ceil(size / 1000) times the sum over the edges of
\* the path of one sample drawn from the edge's bucket for the size, cut
\* down to whole nanoseconds.
C10_Predict ==
    (pc = "predicted") =>
        \A path \in {RealizedPath(prediction)} :
            IF path = <<>>
                  \/ \E k \in DOMAIN path : BucketsFor(path[k], prediction.size) = {}
            THEN prediction.result = None
            ELSE \A d \in {SampledDelay(prediction)} :
                    /\ prediction.result.tag = "Some"
                    /\ prediction.result.val * d[2] <= d[1]
                    /\ d[1] < (prediction.result.val + 1) * d[2]

\* A prediction for a flow of two packets over the four edges of a path of
\* the diamond, from samples that differ, whose product with the number of
\* packets is not a whole number.
C10_Witness ==
    /\ pc = "predicted"
    /\ prediction.result.tag = "Some"
    /\ prediction.size = Max(FlowSizes)
    /\ Len(RealizedPath(prediction)) = 4
    /\ prediction.ys[1] # prediction.ys[2]
    /\ SampledDelay(prediction)[2] # 1
    /\ prediction.result.val > 0

(***************************************************************************)
(* clustering-impls/greedy.rs: GreedyClustering.  The closures of the      *)
(* algorithm are given by name.                                            *)
(***************************************************************************)
\* Feature functions of a channel and its flows.
FeatureNames == {"nr_flows", "src"}

Feature(name, chan, chanFlows) ==
    CASE name = "nr_flows" -> Len(chanFlows)
      [] name = "src" -> chan.src

\* Closeness predicates: some are not reflexive, not symmetric or not
\* transitive.
ClosenessNames == {"always", "never", "equal", "less", "near"}

IsCloseEnough(name, rfeat, cfeat) ==
    CASE name = "always" -> TRUE
      [] name = "never" -> FALSE
      [] name = "equal" -> rfeat = cfeat
      [] name = "less" -> rfeat < cfeat
      [] name = "near" -> rfeat - cfeat \in {-1, 0, 1}

\* Features::get
FeaturesGet(s, feature, eidx) ==
    Feature(feature, s.topology.edges[eidx], Listed(s, s.topology.edges[eidx]))

\* A variant of the loop body that leaves the candidates unclustered.
GreedyIteration_KeepCandidates(s, algo, unclustered, representative) ==
    LET rest == unclustered \ {representative}
        candidates == {c \in rest :
                          IsCloseEnough(algo.is_close_enough,
                                        FeaturesGet(s, algo.feature, representative),
                                        FeaturesGet(s, algo.feature, c))}
    IN  [cluster |-> Cluster(representative, {representative} \cup candidates),
         unclustered |-> rest]

\* One iteration of the loop of GreedyClustering::cluster with the
\* representative the iterator of the set yields: the new cluster and the
\* edges left unclustered.
GreedyIteration(s, algo, unclustered, representative) ==
    LET rest == unclustered \ {representative}
        candidates == {c \in rest :
                          IsCloseEnough(algo.is_close_enough,
                                        FeaturesGet(s, algo.feature, representative),
                                        FeaturesGet(s, algo.feature, c))}
    IN  [cluster |-> Cluster(representative, {representative} \cup candidates),
         unclustered |-> rest \ candidates]

(***************************************************************************)
(* cluster.rs: DefaultClustering.                                          *)
(***************************************************************************)
\* A variant that puts all edges into one cluster.
DefaultClustering_Merged(s) == <<Cluster(1, DOMAIN s.topology.edges)>>

\* DefaultClustering::cluster: `network.clusters().to_vec()`
DefaultClustering(s) == s.clusters

(***************************************************************************)
(* Specification SpecGreedy: SimNetwork::cluster on the SimNetworks of the *)
(* three-node network, with the default clustering and with the greedy     *)
(* clustering, one iteration of its loop per step.                         *)
(***************************************************************************)
\* The start of GreedyClustering::cluster.
StartGreedy ==
    /\ pc = "simulated"
    /\ sim.tag = "Sim"
    /\ \E feature \in FeatureNames, close \in ClosenessNames :
          opts' = [feature |-> feature, is_close_enough |-> close]
    /\ run' = [unclustered |-> DOMAIN sim.topology.edges, clusters |-> <<>>]
    /\ pc' = "clustering"
    /\ UNCHANGED <<nodes, links, network, simVars, delays, prediction>>

\* One iteration of the while loop.
GreedyStep ==
    /\ pc = "clustering"
    /\ \E representative \in run.unclustered :
          LET it == GreedyIteration(sim, opts, run.unclustered, representative)
          IN  run' = [unclustered |-> it.unclustered,
                      clusters |-> Append(run.clusters, it.cluster)]
    /\ UNCHANGED <<pc, nodes, links, network, simVars, opts, delays, prediction>>

\* The loop ends and SimNetwork::cluster stores the clusters.
FinishGreedy ==
    /\ pc = "clustering"
    /\ run.unclustered = {}
    /\ sim' = SetClusters(sim, run.clusters)
    /\ pc' = "clustered"
    /\ UNCHANGED <<nodes, links, network, flows, hash, delayVars>>

\* SimNetwork::cluster with DefaultClustering.
RunDefaultClustering ==
    /\ pc = "simulated"
    /\ sim.tag = "Sim"
    /\ sim' = SetClusters(sim, DefaultClustering(sim))
    /\ pc' = "default_clustered"
    /\ UNCHANGED <<nodes, links, network, flows, hash, delayVars>>

NextGreedy ==
    \/ NewNetwork
    \/ RunIntoSimulationsOnce
    \/ RunDefaultClustering
    \/ StartGreedy
    \/ GreedyStep
    \/ FinishGreedy

SpecGreedy == InitDelays /\ [][NextGreedy]_vars

\* C11: GreedyClustering.cluster terminates, every iteration of its loop
\* taking at least the representative out of the unclustered set (so there
\* are never more clusters than edges taken out), and the clusters it
\* returns are pairwise disjoint, together contain every edge, and each
\* contain their representative, for every feature function and every
\* closeness predicate.
C11_GreedyPartition ==
    /\ (pc = "clustering") =>
          /\ Len(run.clusters) + Cardinality(run.unclustered)
                <= Len(sim.topology.edges)
          /\ \A k \in DOMAIN run.clusters :
                run.clusters[k].members \cap run.unclustered = {}
    /\ (pc = "clustered") =>
          /\ \A i, j \in DOMAIN sim.clusters :
                i # j => sim.clusters[i].members \cap sim.clusters[j].members = {}
          /\ UNION {sim.clusters[k].members : k \in DOMAIN sim.clusters}
                = DOMAIN sim.topology.edges
          /\ \A k \in DOMAIN sim.clusters :
                sim.clusters[k].representative \in sim.clusters[k].members

\* A clustering with a predicate that is neither reflexive nor symmetric,
\* which has put two edges into one cluster and left another edge alone.
C11_Witness ==
    /\ pc = "clustered"
    /\ opts.is_close_enough = "less"
    /\ \E i, j \in DOMAIN sim.clusters :
          /\ Cardinality(sim.clusters[i].members) >= 2
          /\ Cardinality(sim.clusters[j].members) = 1

\* C12: a SimNetwork returned by into_simulations has exactly one cluster
\* per edge, the i-th cluster having edge i as representative and as sole
\* member, and it still has these clusters after SimNetwork::cluster with
\* the default clustering.
C12_IdentityClusters ==
    (pc \in {"simulated", "default_clustered"} /\ sim.tag = "Sim") =>
        /\ Len(sim.clusters) = Len(sim.topology.edges)
        /\ \A i \in DOMAIN sim.clusters :
              sim.clusters[i] = [representative |-> i, members |-> {i}]

\* The default clustering applied to a network of four edges, two of which
\* carry a flow.
C12_Witness ==
    /\ pc = "default_clustered"
    /\ Len(sim.clusters) = 4
    /\ Cardinality(EmptyEdges(sim)) = 2

(***************************************************************************)
(* Specification SpecBuckets: EDistBuckets::fill and for_size on lists of  *)
(* records given by the number of records of every size.  `run` holds the  *)
(* records, `delays` what fill has left in the buckets and `prediction`    *)
(* a lookup by size.                                                       *)
(***************************************************************************)
MaxBucketSize == 4

BucketSizes == 1..MaxBucketSize

\* Numbers of records of one size: around the least length of a bucket
\* that is closed before the end.
BucketCounts == {0, 1, BucketMinLen - 1, BucketMinLen}

\* The records of one size, with delays of 0 to 2 ns.
RecordsOfSize(size, count) ==
    [i \in 1..count |->
        FctRecord(i - 1, size, Min(FlowStarts), SZ_PKTMAX + (i % 3), SZ_PKTMAX)]

\* The records in ascending or in descending order of size.
BucketData(counts, descending) ==
    Flatten([k \in 1..MaxBucketSize |->
                LET size == IF descending THEN MaxBucketSize + 1 - k ELSE k
                IN  RecordsOfSize(size, counts[size])])

InitBuckets ==
    /\ pc = "start"
    /\ nodes = <<>>
    /\ links = <<>>
    /\ network = NoNetwork
    /\ flows = <<>>
    /\ hash = <<>>
    /\ sim = None
    /\ opts = None
    /\ \E counts \in [BucketSizes -> BucketCounts], descending \in BOOLEAN :
          run = [counts |-> counts, descending |-> descending]
    /\ delays = None
    /\ prediction = None

\* EDistBuckets::fill on the records.
RunFill ==
    /\ pc = "start"
    /\ delays' = Fill(BucketData(run.counts, run.descending))
    /\ pc' = "filled"
    /\ UNCHANGED <<nodes, links, network, simVars, opts, run, prediction>>

\* EDistBuckets::for_size for a size from below the least to above the
\* greatest size of a record.
RunForSize ==
    /\ pc = "filled"
    /\ delays.tag = "Ok"
    /\ \E size \in 0..(MaxBucketSize + 1) :
          prediction' = [size |-> size, result |-> ForSize(delays.val, size)]
    /\ pc' = "looked_up"
    /\ UNCHANGED <<nodes, links, network, simVars, opts, run, delays>>

NextBuckets ==
    \/ RunFill
    \/ RunForSize

SpecBuckets == InitBuckets /\ [][NextBuckets]_vars

\* The buckets of the records with the records they hold.
FilledBuckets == Bucket(BucketData(run.counts, run.descending))

SizesIn(bkt) == {bkt.data[i].size : i \in DOMAIN bkt.data}

\* C13: after fill the bucket ranges are pairwise disjoint, so that every
\* size is contained in at most one bucket, which for_size returns; and
\* records of equal size are never in two buckets.
C13_DisjointBuckets ==
    /\ (pc = "filled" /\ delays.tag = "Ok") =>
          /\ \A i, j \in DOMAIN delays.val :
                i < j => (delays.val[i].hi <= delays.val[j].lo
                            \/ delays.val[j].hi <= delays.val[i].lo)
          /\ \A i, j \in DOMAIN FilledBuckets :
                i # j => SizesIn(FilledBuckets[i]) \cap SizesIn(FilledBuckets[j]) = {}
    /\ (pc = "looked_up") =>
          Cardinality({k \in DOMAIN delays.val :
                          delays.val[k].lo <= prediction.size
                             /\ prediction.size < delays.val[k].hi}) <= 1

\* C14: after fill on non-empty data the bucket ranges leave no gap: every
\* bucket after the first begins at the largest size of the bucket before
\* it plus one, and for_size returns a bucket for every size at or above
\* the lower bound of the first bucket, also for sizes above every record.
C14_NoGap ==
    /\ (pc = "filled" /\ delays.tag = "Ok") =>
          \A k \in DOMAIN delays.val :
              k > 1 => delays.val[k].lo = Max(SizesIn(FilledBuckets[k - 1])) + 1
    /\ (pc = "looked_up" /\ delays.val # <<>>) =>
          (prediction.size >= delays.val[1].lo => prediction.result # None)

\* C15: after fill every bucket other than the last holds at least 100
\* records, and its largest record size is at least 2 times its smallest.
C15_ClosedBuckets ==
    (pc = "filled" /\ delays.tag = "Ok") =>
        \A k \in DOMAIN FilledBuckets :
            k < Len(FilledBuckets) =>
                /\ Len(FilledBuckets[k].data) >= BucketMinLen
                /\ Max(SizesIn(FilledBuckets[k])) >= 2 * Min(SizesIn(FilledBuckets[k]))

(***************************************************************************)
(* network.rs: ack_rate_of, duration_of and link_sim_desc.                 *)
(*                                                                         *)
(* The f64 arithmetic of ack_rate_of is carried out on exact fractions;    *)
(* for acknowledgement volumes below 2^53 / (8 * 10^9) bytes the f64       *)
(* product is exact and the quotient is correctly rounded.                 *)
(***************************************************************************)

\* f64::round of a non-negative value: to the nearest integer, halves away
\* from zero.
RatRound(a) == (2 * a[1] + a[2]) \div (2 * a[2])

NanosPerSec == 1000000000

\* SimNetwork::duration_of
DurationOf(s, eidx) ==
    IF eidx \in DOMAIN s.topology.edges
    THEN Some(Duration(s.topology.edges[eidx])) ELSE None

\* A variant of ack_rate_of that reads the channel itself instead of the
\* channel of the reverse direction.
AckRateOf_OwnChannel(s, eidx) ==
    IF eidx \notin DOMAIN s.topology.edges THEN None
    ELSE
        LET chan == s.topology.edges[eidx]
            duration == Duration(chan)
        IN  IF duration = 0 THEN Some(0)
            ELSE Some(RatRound(RatMul(RatOf(chan.nr_ack_bytes * 8),
                                      Rat(NanosPerSec, duration))))

\* SimNetwork::ack_rate_of
AckRateOf(s, eidx) ==
    IF eidx \notin DOMAIN s.topology.edges THEN None
    ELSE
        LET chan == s.topology.edges[eidx]
            reverse_edge == FindEdge(s.topology, chan.dst, chan.src)
            reverse_chan == s.topology.edges[reverse_edge]
            duration == DurationOf(s, reverse_edge).val
        IN  IF duration = 0 THEN Some(0)
            ELSE Some(RatRound(RatMul(RatOf(reverse_chan.nr_ack_bytes * 8),
                                      Rat(NanosPerSec, duration))))

\* The difference of two BitsPerSec values (derive_more::Sub on a u64).
\* When the subtrahend is the larger one, a build with overflow checks
\* panics and a build without them wraps around: the result is then 2^64
\* less the shortfall, which is kept as such.  The outcome is tagged.
BitsSub(a, b, overflow_checks) ==
    IF b <= a THEN Ok(a - b)
    ELSE IF overflow_checks THEN Panic
    ELSE [tag |-> "Wrapped", below |-> b - a]

\* Path::delay
RECURSIVE PathDelay(_, _)
PathDelay(s, path) ==
    IF path = <<>> THEN 0
    ELSE s.topology.edges[Head(path)].delay + PathDelay(s, Tail(path))

\* Path::bandwidths
PathBandwidths(s, path) == {s.topology.edges[path[i]].bandwidth : i \in DOMAIN path}

\* TraversableNetwork::path with the closure of link_sim_desc
FirstChoicePath(s, src, dst) == EdgeIndicesBetween(s, src, dst, FirstChooser).val

\* available_bandwidth holds the tagged outcome of the subtraction that
\* gives it.
LinkSimLink(from, to, total_bandwidth, available_bandwidth, delay) ==
    [from |-> from, to |-> to, total_bandwidth |-> total_bandwidth,
     available_bandwidth |-> available_bandwidth, delay |-> delay]

\* The link of link_sim_desc from a flow source to the bottleneck.
SourceLink(s, src, bsrc, overflow_checks) ==
    LET path == FirstChoicePath(s, src, bsrc)
    IN  IF path = <<>> THEN Panic
        ELSE
            LET eidx == path[1]
                chan == s.topology.edges[eidx]
                available == BitsSub(chan.bandwidth, AckRateOf(s, eidx).val,
                                     overflow_checks)
            IN  IF available = Panic THEN Panic
                ELSE LinkSimLink(src, bsrc, chan.bandwidth, available,
                                 PathDelay(s, path))

\* The fat link of link_sim_desc from the bottleneck to a flow destination.
DestinationLink(s, bdst, dst) ==
    LET path == FirstChoicePath(s, bdst, dst)
    IN  IF path = <<>> THEN Panic
        ELSE
            LET bandwidth == Min(PathBandwidths(s, path)) * 10
            IN  LinkSimLink(bdst, dst, bandwidth, Ok(bandwidth), PathDelay(s, path))

\* SimNetwork::link_sim_desc with its link-level topology.  The sources and
\* destinations are visited in the order of their hash sets, which is taken
\* to be ascending here.  A failed assertion, an unwrap of None and an
\* arithmetic overflow under overflow checks give Panic.
LinkSimTopology(s, edge, overflow_checks) ==
    IF edge \notin DOMAIN s.topology.edges THEN None
    ELSE
        LET chan == s.topology.edges[edge]
            srcs == chan.flow_srcs
            dsts == chan.flow_dsts
            bsrc == chan.src
            bdst == chan.dst
            kindOf(id) ==
                LET n == CHOOSE n \in Range(s.topology.nodes) : n.id = id
                IN  IF n.kind = "Switch" THEN "Switch"
                    ELSE IF id \in srcs THEN "Source"
                    ELSE IF id \in dsts THEN "Destination"
                    ELSE "unreachable"
            ids == srcs \cup dsts \cup {bsrc, bdst}
            ns == [id \in ids |-> kindOf(id)]
            fromSrcs == IF bsrc \in srcs THEN <<>>
                        ELSE [k \in 1..Cardinality(srcs) |->
                                SourceLink(s, SortedSeq(srcs)[k], bsrc, overflow_checks)]
            toDsts == IF bdst \in dsts THEN <<>>
                      ELSE [k \in 1..Cardinality(dsts) |->
                                DestinationLink(s, bdst, SortedSeq(dsts)[k])]
            available == BitsSub(chan.bandwidth, AckRateOf(s, edge).val, overflow_checks)
        IN  IF NrFlows(chan) = 0 THEN None
            ELSE IF srcs \cap dsts # {} THEN Panic
            ELSE IF \E id \in ids : ns[id] = "unreachable" THEN Panic
            ELSE IF bsrc \in srcs /\ Cardinality(srcs) # 1 THEN Panic
            ELSE IF Panic \in Range(fromSrcs) THEN Panic
            ELSE IF bdst \in dsts /\ Cardinality(dsts) # 1 THEN Panic
            ELSE IF Panic \in Range(toDsts) THEN Panic
            ELSE IF available = Panic THEN Panic
            ELSE Some([edge |-> edge,
                       bottleneck |-> LinkSimLink(bsrc, bdst, chan.bandwidth,
                                                  available, chan.delay),
                       other_links |-> fromSrcs \o toDsts,
                       nodes |-> ns,
                       flows |-> chan.flows])

(***************************************************************************)
(* The acknowledgement rates and the link-level topologies of the edges of *)
(* two networks: one with two hosts behind one switch and a third host     *)
(* behind a second switch, and a diamond with two equal-cost paths between *)
(* its two hosts.  The links differ in bandwidth and delay.  Bandwidths    *)
(* and start times are scaled so that all rates stay within the integers   *)
(* of the model checker: flows start 7 ms apart, and the acknowledgements  *)
(* of two or three flows then need some 137 to 274 kbit/s.                 *)
(***************************************************************************)
MaxDescFlows == 3

DescFlowIds == 0..(MaxDescFlows - 1)

DescStarts == {NanosPerSec, NanosPerSec + 7000000}

ForkConfig ==
    [nodes |-> <<Node(0, "Host"), Node(1, "Host"), Node(2, "Host"),
                 Node(3, "Switch"), Node(4, "Switch")>>,
     links |-> <<Link(0, 3, 200000, 1000),
                 Link(1, 3, 300000, 2000),
                 Link(3, 4, 400000, 3000),
                 Link(4, 2, 250000, 4000)>>]

UnevenDiamondConfig ==
    [nodes |-> DiamondConfig.nodes,
     links |-> <<Link(0, 2, 200000, 1000),
                 Link(2, 3, 300000, 2000),
                 Link(2, 4, 400000, 3000),
                 Link(3, 5, 300000, 2000),
                 Link(4, 5, 400000, 3000),
                 Link(5, 1, 250000, 4000)>>]

DescConfigs == {ForkConfig, UnevenDiamondConfig}

\* Lists of flows between hosts: the id of a flow is its position, the
\* flows with an even id have one packet, the others two, and the first
\* flow starts at the earlier of the two start times.
DescFlowLists(hosts) ==
    LET choices == {c \in hosts \X hosts \X DescStarts : c[1] # c[2]}
    IN  UNION {{[i \in 1..k |->
                    Flow(i - 1, c[i][1], c[i][2],
                         IF (i - 1) % 2 = 0 THEN Min(FlowSizes) ELSE Max(FlowSizes),
                         c[i][3])] :
                  c \in {d \in [1..k -> choices] :
                            k > 0 => d[1][3] = Min(DescStarts)}} :
               k \in 0..MaxDescFlows}

InitDesc ==
    /\ pc = "start"
    /\ \E c \in DescConfigs : nodes = c.nodes /\ links = c.links
    /\ network = NoNetwork
    /\ flows = <<>>
    /\ hash = <<>>
    /\ sim = None
    /\ opts = None
    /\ run = None
    /\ delays = None
    /\ prediction = None

\* Hashes of the flow ids: one value for the even ids and one for the odd.
DescHashes == {[id \in DescFlowIds |-> p[id % 2]] : p \in [0..1 -> HashValues]}

RunIntoSimulationsDesc ==
    IntoSimulationsOn(DescFlowLists(HostIds(nodes)), DescHashes)

\* ack_rate_of on an edge of the network.
RunAckRateOf ==
    /\ pc = "simulated"
    /\ sim.tag = "Sim"
    /\ \E e \in DOMAIN sim.topology.edges :
          prediction' = [edge |-> e, ack_rate |-> AckRateOf(sim, e)]
    /\ pc' = "ack_rate"
    /\ UNCHANGED <<nodes, links, network, simVars, opts, run, delays>>

\* link_sim_desc on an edge of the network, in a build with or without
\* overflow checks.
RunLinkSimDesc ==
    /\ pc = "simulated"
    /\ sim.tag = "Sim"
    /\ \E e \in DOMAIN sim.topology.edges, overflow_checks \in BOOLEAN :
          delays' = [edge |-> e, overflow_checks |-> overflow_checks,
                     desc |-> LinkSimTopology(sim, e, overflow_checks)]
    /\ pc' = "described"
    /\ UNCHANGED <<nodes, links, network, simVars, opts, run, prediction>>

NextDesc ==
    \/ NewNetwork
    \/ RunIntoSimulationsDesc
    \/ RunAckRateOf
    \/ RunLinkSimDesc

SpecDesc == InitDesc /\ [][NextDesc]_vars

\* The flows of the input whose path runs over an edge.
FlowsOver(e) ==
    {i \in DOMAIN flows : e \in Range(FlowPath(network, hash, flows[i]).val)}

\* The edge from the head of an edge back to its tail.
ReverseOf(e) ==
    CHOOSE r \in DOMAIN sim.topology.edges :
        /\ sim.topology.edges[r].src = sim.topology.edges[e].dst
        /\ sim.topology.edges[r].dst = sim.topology.edges[e].src

RECURSIVE AckBytes(_)
AckBytes(is) ==
    IF is = {} THEN 0
    ELSE LET i == CHOOSE i \in is : TRUE
         IN  CeilDiv(flows[i].size, 1000) * 60 + AckBytes(is \ {i})

\* The time between the first and the last start of a set of flows.
StartSpan(is) ==
    IF is = {} THEN 0
    ELSE Max({flows[i].start : i \in is}) - Min({flows[i].start : i \in is})

\* The acknowledgement rate of an edge from the flows of the input: 8 x 10^9
\* times the acknowledgement bytes over the span of the starts.
ExactAckRate(e) ==
    LET over == FlowsOver(ReverseOf(e))
    IN  RatMul(RatOf(AckBytes(over) * 8), Rat(NanosPerSec, StartSpan(over)))

\* C17: ack_rate_of(edge) is the reverse channel's nr_ack_bytes, the sum
\* over its flows of ceil(size / 1000) x 60, times 8 x 10^9 over the
\* channel's flow_end - flow_start, rounded to a whole number; it is 0 when
\* that duration is 0, which is when the reverse channel has no flow, one
\* flow or only flows that start together.
C17_AckRateOf ==
    pc = "ack_rate" =>
        LET e == prediction.edge
            over == FlowsOver(ReverseOf(e))
            rev == sim.topology.edges[ReverseOf(e)]
        IN  /\ prediction.ack_rate.tag = "Some"
            /\ rev.nr_ack_bytes = AckBytes(over)
            /\ Duration(rev) = StartSpan(over)
            /\ IF StartSpan(over) = 0
               THEN prediction.ack_rate.val = 0
               ELSE \A x \in {ExactAckRate(e)} :
                       \* within one half of the exact rate
                       /\ RatLe(RatSub(x, RatOf(prediction.ack_rate.val)), <<1, 2>>)
                       /\ RatLe(RatSub(RatOf(prediction.ack_rate.val), x), <<1, 2>>)
            /\ (Cardinality(over) <= 1 => prediction.ack_rate.val = 0)

\* A rate that is not a whole number before rounding, on an edge whose own
\* channel carries no flow.
C17_Witness ==
    /\ pc = "ack_rate"
    /\ prediction.ack_rate.tag = "Some"
    /\ prediction.ack_rate.val > 0
    /\ FlowsOver(prediction.edge) = {}
    /\ ExactAckRate(prediction.edge)[2] # 1

\* The links the descriptor of an edge is to hold besides the bottleneck:
\* from every flow source to the tail of the edge unless the tail is a flow
\* source, and from the head of the edge to every flow destination unless
\* the head is a flow destination.
StatedOtherLinks(e) ==
    LET chan == sim.topology.edges[e]
        srcs == {flows[i].src : i \in FlowsOver(e)}
        dsts == {flows[i].dst : i \in FlowsOver(e)}
        hop(p) == sim.topology.edges[p[1]]
        fromSrc(src) ==
            LET p == FirstChoicePath(sim, src, chan.src)
            IN  LinkSimLink(src, chan.src, hop(p).bandwidth,
                            Ok(hop(p).bandwidth - AckRateOf(sim, p[1]).val),
                            PathDelay(sim, p))
        toDst(dst) ==
            LET p == FirstChoicePath(sim, chan.dst, dst)
            IN  LinkSimLink(chan.dst, dst, 10 * Min(PathBandwidths(sim, p)),
                            Ok(10 * Min(PathBandwidths(sim, p))),
                            PathDelay(sim, p))
    IN  (IF chan.src \in srcs THEN {} ELSE {fromSrc(src) : src \in srcs})
        \cup (IF chan.dst \in dsts THEN {} ELSE {toDst(dst) : dst \in dsts})

\* other_links holds the stated links, each once.
OtherLinksAsStated ==
    /\ Range(delays.desc.val.other_links) = StatedOtherLinks(delays.edge)
    /\ Len(delays.desc.val.other_links) = Cardinality(StatedOtherLinks(delays.edge))

\* A subtraction of the descriptor has wrapped around.
SomeLinkWrapped ==
    \/ delays.desc.val.bottleneck.available_bandwidth.tag = "Wrapped"
    \/ \E k \in DOMAIN delays.desc.val.other_links :
          delays.desc.val.other_links[k].available_bandwidth.tag = "Wrapped"

\* C16: in the LinkSimDesc of an edge (bsrc -> bdst) that carries flows,
\* other_links has one link (s -> bsrc) per flow source s unless bsrc is a
\* flow source, with the bandwidth of the first hop of the first-choice path
\* from s to bsrc, that bandwidth less the ACK rate of the first hop as
\* available bandwidth and the sum of the delays of the path; and one link
\* (bdst -> d) per flow destination d unless bdst is a flow destination, with
\* 10 times the least bandwidth of the first-choice path from bdst to d as
\* total and available bandwidth and the sum of its delays.
C16_OtherLinks ==
    (pc = "described" /\ delays.desc.tag = "Some") => OtherLinksAsStated

\* The links are as stated in every descriptor none of whose subtractions
\* has wrapped around.
OtherLinksUnlessWrapped ==
    (pc = "described" /\ delays.desc.tag = "Some" /\ ~SomeLinkWrapped)
        => OtherLinksAsStated

\* The descriptor of an edge between the switches with two flow sources and
\* a positive ACK rate on a first hop.
OtherLinksReached ==
    /\ pc = "described"
    /\ delays.desc.tag = "Some"
    /\ ~SomeLinkWrapped
    /\ \E k \in DOMAIN delays.desc.val.other_links :
          LET l == delays.desc.val.other_links[k]
          IN  /\ l.available_bandwidth.val < l.total_bandwidth
              /\ l.delay > DefaultDelay
    /\ Len(delays.desc.val.other_links) >= 2

\* link_sim_desc panics on an edge that carries flows.
DescriptorPanics ==
    pc = "described" /\ delays.desc = Panic

(***************************************************************************)
(* network.rs: simulate_clusters_locally, and worker.rs: simulate_chunk.   *)
(* Both run one task per edge on a parallel iterator; every task sends its *)
(* pair (edge, records) through a clone of the sender of an unbounded      *)
(* channel, and the receiver is drained once try_for_each_with has         *)
(* returned.  The tasks run in any order.  The call under study is kept in *)
(* `run`: the edges of the tasks, the tasks still to run, the number of    *)
(* senders alive, the channel, the pairs received, and whether a task has  *)
(* failed.                                                                 *)
(***************************************************************************)
CollectRun(mode, edges) ==
    [mode |-> mode, edges |-> edges, todo |-> DOMAIN edges, senders |-> 1,
     chan |-> <<>>, received |-> <<>>, failed |-> FALSE]

\* A variant in which the sender moved into try_for_each_with outlives the
\* call.
SendersAfterForEach_Kept(senders) == senders

\* try_for_each_with takes the sender by value: it is dropped, with the
\* clones of the tasks, when the call returns.
SendersAfterForEach(senders) == senders - 1

\* The simulators of the calls: the second profile of completion times,
\* failing on no edge or on one.
CollectSims(edges) == {ls \in LinkSims(edges) : ls.fct[0][1] > ls.fct[0][2]}

\* The edges of the descriptors a worker is sent.
ChunkEdges(s, edges) ==
    LET descs == WorkerDescs(s, edges) IN [i \in DOMAIN descs |-> descs[i].edge]

\* The start of simulate_clusters_locally on the clusters of the network, or
\* of simulate_chunk on the descriptors of the chunk of a worker.
StartCollect ==
    /\ pc = "clustered"
    /\ \E linkSim \in CollectSims(DOMAIN sim.topology.edges), workers \in WorkerLists :
          /\ opts' = [link_sim |-> linkSim, workers |-> workers]
          /\ IF IsLocal(opts')
             THEN run' = CollectRun("local", Representatives(sim))
             ELSE \E shuffled \in Shuffles(Representatives(sim)) :
                      LET assignments == AssignWorkRandomly(workers, shuffled)
                      IN  /\ assignments # Panic
                          /\ \E w \in DOMAIN assignments.val :
                                run' = CollectRun("chunk",
                                           ChunkEdges(sim, assignments.val[w].edges))
    /\ pc' = "tasks"
    /\ UNCHANGED <<nodes, links, network, simVars, delays, prediction>>

\* One task of the parallel iterator: the simulation of an edge and the
\* send of its records, or the error of the simulator.
CollectTask ==
    /\ pc = "tasks"
    /\ \E k \in run.todo :
          LET edge == run.edges[k]
              out == SimulateRepresentative(sim, opts.link_sim, edge)
          IN  run' = [run EXCEPT
                        !.todo = @ \ {k},
                        !.failed = @ \/ out.tag = "Err",
                        !.chan = IF out.tag = "Ok"
                                 THEN Append(@, <<edge, out.val>>) ELSE @]
    /\ UNCHANGED <<pc, nodes, links, network, simVars, opts, delays, prediction>>

\* try_for_each_with returns Ok: every task has run.
ForEachReturns ==
    /\ pc = "tasks"
    /\ run.todo = {}
    /\ ~run.failed
    /\ run' = [run EXCEPT !.senders = SendersAfterForEach(@)]
    /\ pc' = "collecting"
    /\ UNCHANGED <<nodes, links, network, simVars, opts, delays, prediction>>

\* try_for_each_with returns the error of a failed task, whether or not the
\* other tasks have run, and `?` returns it.
ForEachFails ==
    /\ pc = "tasks"
    /\ run.failed
    /\ delays' = IF run.mode = "local"
                 THEN IntoDelays(sim, SimNetworkError("LinkSim"))
                 ELSE SimNetworkError("LinkSim")
    /\ pc' = "done"
    /\ UNCHANGED <<nodes, links, network, simVars, opts, run, prediction>>

\* r.iter() yields the next pair of the channel.
Receive ==
    /\ pc = "collecting"
    /\ run.chan # <<>>
    /\ run' = [run EXCEPT !.received = Append(@, Head(run.chan)),
                          !.chan = Tail(@)]
    /\ UNCHANGED <<pc, nodes, links, network, simVars, opts, delays, prediction>>

\* r.iter() ends when the channel is empty and has no sender left; the
\* pairs are collected into the map of simulate_clusters_locally, with
\* which into_delays goes on, or into the vector of simulate_chunk.
CollectEnds ==
    /\ pc = "collecting"
    /\ run.chan = <<>>
    /\ run.senders = 0
    /\ delays' = IF run.mode = "local"
                 THEN IntoDelays(sim, Ok(CollectMap(run.received)))
                 ELSE Ok(run.received)
    /\ pc' = "done"
    /\ UNCHANGED <<nodes, links, network, simVars, opts, run, prediction>>

NextCollect ==
    \/ NewNetwork
    \/ RunIntoSimulationsOnce
    \/ RunCluster
    \/ StartCollect
    \/ CollectTask
    \/ ForEachReturns
    \/ ForEachFails
    \/ Receive
    \/ CollectEnds

SpecCollect == InitDelays /\ [][NextCollect]_vars

\* The records of an edge, whatever the order of the tasks.
OwnRecords(edge) == SimulateRepresentative(sim, opts.link_sim, edge).val

\* The pairs received are those of the tasks, each once, with the records
\* of their edge.
ReceivedOwnRecords ==
    /\ Len(run.received) = Len(run.edges)
    /\ {run.received[i][1] : i \in DOMAIN run.received} = Range(run.edges)
    /\ \A i \in DOMAIN run.received :
          run.received[i][2] = OwnRecords(run.received[i][1])

CollectedInAnyOrder ==
    (pc = "done" /\ ~run.failed) =>
        /\ ReceivedOwnRecords
        /\ run.mode = "local" =>
              /\ DOMAIN CollectMap(run.received) =
                    {sim.clusters[k].representative : k \in DOMAIN sim.clusters}
              /\ delays = IntoDelays(sim,
                     Ok([e \in {sim.clusters[k].representative : k \in DOMAIN sim.clusters}
                            |-> OwnRecords(e)]))

\* While the receiver is drained no sender is alive, and the pairs received
\* and the pairs in the channel are those of all tasks: the iterator yields
\* the pairs that are left and ends, it never waits for a sender.
CollectionEnds ==
    pc = "collecting" =>
        /\ run.senders = 0
        /\ Len(run.received) + Len(run.chan) = Len(run.edges)

\* C18: the result of into_delays does not depend on the order in which the
\* parallel simulation tasks run and complete: in every interleaving the
\* collected map has one entry per cluster representative with the records
\* of that representative (and the vector of a worker one pair per
\* descriptor), and the collection ends once all tasks have sent their
\* result.
C18_OrderIndependent == CollectedInAnyOrder /\ CollectionEnds

\* A local call whose tasks did not send in the order of the clusters: the
\* first pair received is not that of the first task.
C18_Witness ==
    /\ pc = "done"
    /\ ~run.failed
    /\ run.mode = "local"
    /\ Len(run.received) >= 3
    /\ run.received[1][1] # run.edges[1]
    /\ \E i \in DOMAIN run.received : run.received[i][2] # <<>>

(***************************************************************************)
(* distribute.rs: work_remote, and worker.rs: handle_client.  One TCP      *)
(* connection between a client and the thread the worker spawns for it.    *)
(* The request and the response are byte strings, given by their lengths;  *)
(* each direction of the connection holds up to sock_buf bytes in flight,  *)
(* and a write or a read moves one byte at a time.  MessagePack values are *)
(* self-delimiting: the decoder of the worker returns when it has read the *)
(* last byte of the request.  The transport does not fail.  The connection *)
(* is kept in `run`, the inputs of the exchange in `opts`.                 *)
(***************************************************************************)
MaxMsgLen == 3

MaxSockBuf == 2

\* The outcomes of the body of handle_client between the request and the
\* response: the results of simulate_chunk, or an error (of the JSON of the
\* simulator or of a simulation).
WorkerOutcomes == {"results", "error"}

\* A variant of the decoder that reads the request up to the end of the
\* stream.
RequestDecoded_AtEof(read, len, closed) == read = len /\ closed

\* decode::from_read on the stream: done with the last byte of the value.
RequestDecoded(read, len, closed) == read = len

\* Deserializing the bytes read_to_end has returned: they are the response
\* when they are all of it.
ResponseDeserialized(got, len) == got = len

InitExchange ==
    /\ pc = "exchange"
    /\ nodes = <<>>
    /\ links = <<>>
    /\ network = NoNetwork
    /\ flows = <<>>
    /\ hash = <<>>
    /\ sim = None
    /\ opts \in [req_len : 1..MaxMsgLen, resp_len : 1..MaxMsgLen,
                 sock_buf : 1..MaxSockBuf, outcome : WorkerOutcomes]
    /\ run = [cpc |-> "send_chunk", written |-> 0, got |-> 0, cclosed |-> FALSE,
              wpc |-> "accept", read |-> 0, requests |-> 0, wrote |-> 0,
              responses |-> 0, wclosed |-> FALSE,
              c2w |-> 0, w2c |-> 0]
    /\ delays = None
    /\ prediction = None

ExchangeUnchanged == UNCHANGED <<pc, nodes, links, network, simVars, opts, delays, prediction>>

\* work_remote: the chunk is sent ahead of the connection.
SendChunk ==
    /\ run.cpc = "send_chunk"
    /\ run' = [run EXCEPT !.cpc = "connect"]
    /\ ExchangeUnchanged

\* TcpStream::connect, and on the other side accept and the spawn of the
\* thread that runs handle_client.
Connect ==
    /\ run.cpc = "connect"
    /\ run.wpc = "accept"
    /\ run' = [run EXCEPT !.cpc = "write", !.wpc = "read"]
    /\ ExchangeUnchanged

\* stream.write_all(&buf) of the client: the next byte, when there is room.
ClientWrite ==
    /\ run.cpc = "write"
    /\ run.c2w < opts.sock_buf
    /\ run' = [run EXCEPT
                 !.written = @ + 1,
                 !.c2w = @ + 1,
                 !.cpc = IF run.written + 1 = opts.req_len THEN "read" ELSE @]
    /\ ExchangeUnchanged

\* stream.read_to_end(&mut buf) of the client: the next byte.
ClientRead ==
    /\ run.cpc = "read"
    /\ run.w2c > 0
    /\ run' = [run EXCEPT !.got = @ + 1, !.w2c = @ - 1]
    /\ ExchangeUnchanged

\* read_to_end returns at the end of the stream, and the bytes are
\* deserialized.
ClientReadEnds ==
    /\ run.cpc = "read"
    /\ run.w2c = 0
    /\ run.wclosed
    /\ run' = [run EXCEPT
                 !.cpc = IF ResponseDeserialized(run.got, opts.resp_len)
                         THEN "shutdown" ELSE "err"]
    /\ ExchangeUnchanged

\* stream.shutdown() and the return of the result.
ClientShutdown ==
    /\ run.cpc = "shutdown"
    /\ run' = [run EXCEPT !.cpc = "ok", !.cclosed = TRUE]
    /\ ExchangeUnchanged

\* decode::from_read of the worker: the next byte of the request.
WorkerRead ==
    /\ run.wpc = "read"
    /\ ~RequestDecoded(run.read, opts.req_len, run.cclosed)
    /\ run.c2w > 0
    /\ run' = [run EXCEPT !.read = @ + 1, !.c2w = @ - 1]
    /\ ExchangeUnchanged

\* The request is decoded.
WorkerDecoded ==
    /\ run.wpc = "read"
    /\ RequestDecoded(run.read, opts.req_len, run.cclosed)
    /\ run' = [run EXCEPT !.wpc = "simulate", !.requests = @ + 1]
    /\ ExchangeUnchanged

\* The simulations of the worker.  On an error handle_client returns it,
\* the thread panics on the unwrap and the stream is dropped.
WorkerSimulate ==
    /\ run.wpc = "simulate"
    /\ run' = IF opts.outcome = "results"
              THEN [run EXCEPT !.wpc = "write"]
              ELSE [run EXCEPT !.wpc = "panicked", !.wclosed = TRUE]
    /\ ExchangeUnchanged

\* stream.write_all(&buf) of the worker: the next byte, when there is room.
WorkerWrite ==
    /\ run.wpc = "write"
    /\ run.w2c < opts.sock_buf
    /\ run' = [run EXCEPT
                 !.wrote = @ + 1,
                 !.w2c = @ + 1,
                 !.wpc = IF run.wrote + 1 = opts.resp_len THEN "flush" ELSE @]
    /\ ExchangeUnchanged

\* stream.flush() and the return of handle_client, which drops the stream.
WorkerClose ==
    /\ run.wpc = "flush"
    /\ run' = [run EXCEPT !.wpc = "closed", !.responses = @ + 1, !.wclosed = TRUE]
    /\ ExchangeUnchanged

ClientStep ==
    \/ SendChunk
    \/ Connect
    \/ ClientWrite
    \/ ClientRead
    \/ ClientReadEnds
    \/ ClientShutdown

WorkerStep ==
    \/ WorkerRead
    \/ WorkerDecoded
    \/ WorkerSimulate
    \/ WorkerWrite
    \/ WorkerClose

NextExchange == ClientStep \/ WorkerStep

SpecExchange == InitExchange /\ [][NextExchange]_vars

\* The task of the client and the thread of the worker keep running.
SpecExchangeFair ==
    SpecExchange /\ WF_vars(ClientStep) /\ WF_vars(WorkerStep)

\* The client waits for the worker to read, to send or to close.
ClientWaits ==
    \/ run.cpc = "write" /\ run.c2w = opts.sock_buf
    \/ run.cpc = "read" /\ run.w2c = 0 /\ ~run.wclosed

\* The worker waits for the client to send or to read.
WorkerWaits ==
    \/ run.wpc = "read" /\ run.c2w = 0
         /\ ~RequestDecoded(run.read, opts.req_len, run.cclosed)
    \/ run.wpc = "write" /\ run.w2c = opts.sock_buf

\* The thread of the worker has ended.
WorkerEnded == run.wpc \in {"closed", "panicked"}

\* C19 as stated: on one worker connection, in every run without transport
\* failure, the worker reads one request, runs the simulations, writes one
\* response and closes.
C19_OneResponsePerConnection ==
    WorkerEnded => (run.requests = 1 /\ run.responses = 1 /\ run.wrote = opts.resp_len)

ExchangeSafe ==
    /\ ~(ClientWaits /\ WorkerWaits)
    /\ run.requests <= 1
    /\ run.responses <= 1
    /\ WorkerEnded => run.requests = 1 /\ run.read = opts.req_len
    /\ (WorkerEnded /\ opts.outcome = "results") =>
            (run.responses = 1 /\ run.wrote = opts.resp_len)
    /\ (WorkerEnded /\ opts.outcome = "error") =>
            (run.responses = 0 /\ run.wrote = 0)
    /\ run.cpc \in {"shutdown", "ok"} =>
            (run.got = opts.resp_len /\ opts.outcome = "results")
    /\ run.cpc = "err" => opts.outcome = "error"

\* Whatever the outcome of the simulations, the exchange comes to an end:
\* the worker reads one request and closes the connection after one
\* complete response, or after no response when its simulations fail; the
\* client, having written its request, reads the complete response in the
\* first case and the end of the stream with no byte, which fails to
\* deserialize, in the second; client and worker never both wait for the
\* other.
ExchangeCompletes ==
    /\ []ExchangeSafe
    /\ (run.cpc = "read" /\ opts.outcome = "results") ~> (run.cpc = "ok" /\ run.wpc = "closed")
    /\ (run.cpc = "read" /\ opts.outcome = "error") ~> (run.cpc = "err" /\ run.wpc = "panicked")

\* The client has read a response longer than a socket buffer, so that the
\* worker had to wait for the client while writing.
ExchangeReached ==
    /\ run.cpc = "ok"
    /\ run.wpc = "closed"
    /\ run.got = opts.resp_len
    /\ opts.resp_len > opts.sock_buf
    /\ opts.req_len > opts.sock_buf

(***************************************************************************)
(* worker.rs: start and serve.  The main thread spawns the listener thread *)
(* and joins it; the interrupt handler clears the running flag; the        *)
(* listener loops over a non-blocking accept and spawns one detached       *)
(* thread per connection.  When start returns, main returns and the        *)
(* process exits, which ends the threads that are left.  The worker is     *)
(* kept in `run`: the flag, the place of the listener in its loop, the     *)
(* state of every connection, the connections accepted before the signal,  *)
(* and whether the process has exited.                                     *)
(***************************************************************************)
MaxConns == 2

ConnIds == 1..MaxConns

InitWorker ==
    /\ pc = "worker"
    /\ nodes = <<>>
    /\ links = <<>>
    /\ network = NoNetwork
    /\ flows = <<>>
    /\ hash = <<>>
    /\ sim = None
    /\ opts = None
    /\ run = [running |-> TRUE, signalled |-> FALSE, listener |-> "check",
              conns |-> [c \in ConnIds |-> "none"],
              before |-> {}, exited |-> FALSE]
    /\ delays = None
    /\ prediction = None

WorkerUnchanged == UNCHANGED <<pc, nodes, links, network, simVars, opts, delays, prediction>>

\* A client connects: the connection waits in the backlog of the listener.
ClientArrives ==
    /\ ~run.exited
    /\ \E c \in ConnIds :
          /\ run.conns[c] = "none"
          /\ run' = [run EXCEPT !.conns[c] = "backlog"]
    /\ WorkerUnchanged

\* The interrupt handler: `r.store(false, Ordering::SeqCst)`.
ShutdownSignal ==
    /\ ~run.exited
    /\ ~run.signalled
    /\ run' = [run EXCEPT
                 !.running = FALSE,
                 !.signalled = TRUE,
                 !.before = {c \in ConnIds : run.conns[c] \in {"handling", "responded"}}]
    /\ WorkerUnchanged

\* `while running.load(Ordering::SeqCst)`: into the body, or out of the
\* loop and of serve.
LoopCheck ==
    /\ ~run.exited
    /\ run.listener = "check"
    /\ run' = [run EXCEPT !.listener = IF run.running THEN "accept" ELSE "returned"]
    /\ WorkerUnchanged

\* listener.accept() returns a connection, and its thread is spawned.
AcceptConnection ==
    /\ ~run.exited
    /\ run.listener = "accept"
    /\ \E c \in ConnIds :
          /\ run.conns[c] = "backlog"
          /\ run' = [run EXCEPT !.conns[c] = "handling", !.listener = "check"]
    /\ WorkerUnchanged

\* listener.accept() would block: the listener sleeps for 100 ms.
AcceptWouldBlock ==
    /\ ~run.exited
    /\ run.listener = "accept"
    /\ \A c \in ConnIds : run.conns[c] # "backlog"
    /\ run' = [run EXCEPT !.listener = "check"]
    /\ WorkerUnchanged

\* handle_client on a connection comes to its end: the response is written.
HandlerResponds ==
    /\ ~run.exited
    /\ \E c \in ConnIds :
          /\ run.conns[c] = "handling"
          /\ run' = [run EXCEPT !.conns[c] = "responded"]
    /\ WorkerUnchanged

\* The join of the listener thread returns, start returns and the process
\* exits: the threads still handling a connection end with it.
WorkerExits ==
    /\ ~run.exited
    /\ run.listener = "returned"
    /\ run' = [run EXCEPT
                 !.exited = TRUE,
                 !.conns = [c \in ConnIds |->
                              IF run.conns[c] = "handling" THEN "killed"
                              ELSE run.conns[c]]]
    /\ WorkerUnchanged

ListenerStep == LoopCheck \/ AcceptConnection \/ AcceptWouldBlock

NextWorker ==
    \/ ClientArrives
    \/ ShutdownSignal
    \/ ListenerStep
    \/ HandlerResponds
    \/ WorkerExits

SpecWorker == InitWorker /\ [][NextWorker]_vars

\* The listener thread and the main thread keep running.
SpecWorkerFair == SpecWorker /\ WF_vars(ListenerStep) /\ WF_vars(WorkerExits)

\* C20: after the shutdown signal has cleared the running flag, the worker
\* terminates only after every connection accepted before the signal has
\* been handled to completion, its response written.
C20_HandledBeforeExit ==
    run.exited => \A c \in run.before : run.conns[c] = "responded"

\* After the signal the accept loop comes to an end, having accepted at
\* most one more connection, and the worker exits.
AcceptLoopStops == run.signalled ~> (run.listener = "returned" /\ run.exited)

(***************************************************************************)
(* worker.rs: serve and handle_client, with requests that name a link      *)
(* simulator handle_client knows ("minim", "ns3") or not.  The worker is   *)
(* kept in `run`: the place of the listener in its loop, and for every     *)
(* connection its state and the name in its request; `late` holds the      *)
(* connections that arrived after a handler had panicked.  No interrupt    *)
(* signal arrives.                                                         *)
(***************************************************************************)
SimNames == {"minim", "ns3", "other"}

\* A variant for a build in which a panic aborts the process.
ListenerAfterPanic_Abort(listener) == "returned"

\* A panic unwinds the thread it happens in; the listener thread is another
\* thread.
ListenerAfterPanic(listener) == listener

\* The `match sim_name` of handle_client: the results to write, or the
\* panic of unimplemented!.
HandleClientOutcome(name) ==
    IF name \in {"minim", "ns3"} THEN "responded" ELSE "panicked"

InitServe ==
    /\ pc = "serve"
    /\ nodes = <<>>
    /\ links = <<>>
    /\ network = NoNetwork
    /\ flows = <<>>
    /\ hash = <<>>
    /\ sim = None
    /\ opts = None
    /\ run = [listener |-> "check",
              conns |-> [c \in ConnIds |-> [state |-> "none", name |-> "minim"]],
              late |-> {}]
    /\ delays = None
    /\ prediction = None

\* A client connects and writes its request.
RequestArrives ==
    /\ \E c \in ConnIds, name \in SimNames :
          /\ run.conns[c].state = "none"
          /\ run' = [run EXCEPT
                       !.conns[c] = [state |-> "backlog", name |-> name],
                       !.late = IF \E d \in ConnIds : run.conns[d].state = "panicked"
                                THEN @ \cup {c} ELSE @]
    /\ WorkerUnchanged

\* `while running.load(Ordering::SeqCst)` with the flag set.
ServeLoopCheck ==
    /\ run.listener = "check"
    /\ run' = [run EXCEPT !.listener = "accept"]
    /\ WorkerUnchanged

\* listener.accept() returns a connection, and its thread is spawned.
ServeAccept ==
    /\ run.listener = "accept"
    /\ \E c \in ConnIds :
          /\ run.conns[c].state = "backlog"
          /\ run' = [run EXCEPT !.conns[c].state = "handling", !.listener = "check"]
    /\ WorkerUnchanged

\* listener.accept() would block: the listener sleeps for 100 ms.
ServeWouldBlock ==
    /\ run.listener = "accept"
    /\ \A c \in ConnIds : run.conns[c].state # "backlog"
    /\ run' = [run EXCEPT !.listener = "check"]
    /\ WorkerUnchanged

\* handle_client on a connection: the response is written, or the thread
\* panics and the stream is dropped without a response.
HandleClient ==
    /\ run.listener # "returned"
    /\ \E c \in ConnIds :
          /\ run.conns[c].state = "handling"
          /\ LET outcome == HandleClientOutcome(run.conns[c].name)
             IN  run' = [run EXCEPT
                           !.conns[c].state = outcome,
                           !.listener = IF outcome = "panicked"
                                        THEN ListenerAfterPanic(@) ELSE @]
    /\ WorkerUnchanged

ServeListenerStep == ServeLoopCheck \/ ServeAccept \/ ServeWouldBlock

NextServe == RequestArrives \/ ServeListenerStep \/ HandleClient

SpecServe == InitServe /\ [][NextServe]_vars

\* The listener thread and the threads of the connections keep running.
SpecServeFair == SpecServe /\ WF_vars(ServeListenerStep) /\ WF_vars(HandleClient)

\* A request with an unknown name gets no response, the others get one, and
\* the accept loop goes on.
UnknownFailsAlone ==
    /\ run.listener # "returned"
    /\ \A c \in ConnIds :
          /\ run.conns[c].state = "responded" => run.conns[c].name \in {"minim", "ns3"}
          /\ run.conns[c].state = "panicked" => run.conns[c].name = "other"

SZ_PKTHDR == 48

\* BitsPerSec::length: the time to serialize `size` bytes, rounded to whole
\* nanoseconds.  The assertion on the bandwidth gives Panic.
Length(bps, size) ==
    IF bps = 0 THEN Panic
    ELSE IF size = 0 THEN 0
    ELSE RatRound(RatMul(RatOf(size * 8), Rat(NanosPerSec, bps)))

\* scale_by with a whole factor.
ScaleByCount(x, n) == RatRound(RatMul(RatOf(x), RatOf(n)))

RECURSIVE SumOver(_, _, _)
SumOver(Op(_), xs, k) ==
    IF k > Len(xs) THEN 0 ELSE Op(xs[k]) + SumOver(Op, xs, k + 1)

\* A variant that charges the full packets after the first without their
\* headers.
IdealFct_BareFullPkts(size, hops) ==
    LET min_bw == Min({hops[i].bandwidth : i \in DOMAIN hops})
        sz_head_ == Min({SZ_PKTMAX, size})
        sz_head == IF sz_head_ # 0 THEN sz_head_ + SZ_PKTHDR ELSE 0
        sz_rest_ == size - sz_head_
        HeadOf(c) == Length(c.bandwidth, sz_head)
        DelayOf(c) == c.delay
        nr_full_pkts == sz_rest_ \div SZ_PKTMAX
        sz_partial_pkt_ == sz_rest_ % SZ_PKTMAX
        sz_partial_pkt == IF sz_partial_pkt_ # 0 THEN sz_partial_pkt_ + SZ_PKTHDR ELSE 0
    IN  SumOver(HeadOf, hops, 1)
        + ScaleByCount(Length(min_bw, SZ_PKTMAX), nr_full_pkts)
        + Length(min_bw, sz_partial_pkt)
        + SumOver(DelayOf, hops, 1)

\* ideal_fct
IdealFct(size, hops) ==
    IF hops = <<>> THEN Panic
    ELSE
        LET min_bw == Min({hops[i].bandwidth : i \in DOMAIN hops})
            sz_head_ == Min({SZ_PKTMAX, size})
            sz_head == IF sz_head_ # 0 THEN sz_head_ + SZ_PKTHDR ELSE 0
            sz_rest_ == size - sz_head_
            HeadOf(c) == Length(c.bandwidth, sz_head)
            DelayOf(c) == c.delay
            head_delay == SumOver(HeadOf, hops, 1)
            nr_full_pkts == sz_rest_ \div SZ_PKTMAX
            sz_full_pkt == SZ_PKTMAX + SZ_PKTHDR
            sz_partial_pkt_ == sz_rest_ % SZ_PKTMAX
            sz_partial_pkt == IF sz_partial_pkt_ # 0
                              THEN sz_partial_pkt_ + SZ_PKTHDR ELSE 0
            rest_delay == ScaleByCount(Length(min_bw, sz_full_pkt), nr_full_pkts)
                          + Length(min_bw, sz_partial_pkt)
            prop_delay == SumOver(DelayOf, hops, 1)
        IN  head_delay + rest_delay + prop_delay

(***************************************************************************)
(* ideal_fct on two sizes, the second at most MaxFctStep bytes above the   *)
(* first, over one or two hops whose bandwidths give serialization times   *)
(* that are not whole numbers of nanoseconds.  The sizes run over the      *)
(* first three packets.                                                    *)
(***************************************************************************)
MaxFctSize == 2100

MaxFctStep == 2

MaxFctHops == 2

FctBandwidths == {700000000, 1000000000, 1500000000}

FctHops ==
    {[i \in DOMAIN bw |-> BasicChannel(i - 1, i, bw[i], DefaultDelay)] :
        bw \in UNION {[1..k -> FctBandwidths] : k \in 1..MaxFctHops}}

InitFct ==
    /\ pc = "sizes"
    /\ nodes = <<>>
    /\ links = <<>>
    /\ network = NoNetwork
    /\ flows = <<>>
    /\ hash = <<>>
    /\ sim = None
    /\ opts = None
    /\ run \in [size : 0..MaxFctSize, step : 0..MaxFctStep,
                hops : FctHops]
    /\ delays = None
    /\ prediction = None

\* ideal_fct on the two sizes.
RunIdealFct ==
    /\ pc = "sizes"
    /\ prediction' = [lower |-> IdealFct(run.size, run.hops),
                      upper |-> IdealFct(run.size + run.step, run.hops)]
    /\ pc' = "ideal_fct"
    /\ UNCHANGED <<nodes, links, network, simVars, opts, run, delays>>

NextFct == RunIdealFct

SpecFct == InitFct /\ [][NextFct]_vars

\* C22: for a fixed non-empty list of hops with positive bandwidths,
\* ideal_fct is monotonically non-decreasing in the size, across packet
\* boundaries too and with every serialization term rounded to whole
\* nanoseconds.
C22_IdealFctMonotone ==
    pc = "ideal_fct" => prediction.lower <= prediction.upper

\* Two sizes on the two sides of a packet boundary, on hops of different
\* bandwidths.
C22_Witness ==
    /\ pc = "ideal_fct"
    /\ run.size = 2 * SZ_PKTMAX - 1
    /\ run.step = 2
    /\ Len(run.hops) = 2
    /\ run.hops[1].bandwidth # run.hops[2].bandwidth
    /\ prediction.lower < prediction.upper

(***************************************************************************)
(* linksim.rs: LinkSimSpec::contiguousify.                                 *)
(***************************************************************************)
LinkSimNode(id, kind) == [id |-> id, kind |-> kind]

\* `nodes.iter().enumerate().map(|(i, n)| (n.id, NodeId::new(i))).collect()`:
\* of two nodes with one id the later one gives the entry.
Old2New(ns) ==
    [id \in {ns[i].id : i \in DOMAIN ns} |->
        Max({i \in DOMAIN ns : ns[i].id = id}) - 1]

\* `*old2new.get(&id).unwrap()`
Renumber(old2new, id) == IF id \in DOMAIN old2new THEN old2new[id] ELSE Panic

\* A variant that leaves the endpoints of the flows as they are.
ContiguousFlows_Kept(old2new, fs) == fs

ContiguousFlows(old2new, fs) ==
    [i \in DOMAIN fs |->
        [fs[i] EXCEPT !.src = Renumber(old2new, fs[i].src),
                      !.dst = Renumber(old2new, fs[i].dst)]]

ContiguousLink(old2new, l) ==
    [l EXCEPT !.from = Renumber(old2new, l.from), !.to = Renumber(old2new, l.to)]

\* The ids contiguousify looks up.
LookedUp(spec) ==
    {spec.bottleneck.from, spec.bottleneck.to}
    \cup {spec.other_links[i].from : i \in DOMAIN spec.other_links}
    \cup {spec.other_links[i].to : i \in DOMAIN spec.other_links}
    \cup {spec.flows[i].src : i \in DOMAIN spec.flows}
    \cup {spec.flows[i].dst : i \in DOMAIN spec.flows}

\* LinkSimSpec::contiguousify: the copy and the map, or the panic of an
\* unwrap on an id that no node has.
Contiguousify(spec) ==
    LET old2new == Old2New(spec.nodes)
    IN  IF ~(LookedUp(spec) \subseteq DOMAIN old2new) THEN Panic
        ELSE Ok([spec |->
                    [edge |-> spec.edge,
                     bottleneck |-> ContiguousLink(old2new, spec.bottleneck),
                     other_links |-> [i \in DOMAIN spec.other_links |->
                                        ContiguousLink(old2new, spec.other_links[i])],
                     nodes |-> [i \in DOMAIN spec.nodes |->
                                  [spec.nodes[i] EXCEPT
                                      !.id = Renumber(old2new, spec.nodes[i].id)]],
                     flows |-> ContiguousFlows(old2new, spec.flows)],
                 old2new |-> old2new])

(***************************************************************************)
(* contiguousify on the specs of up to MaxSpecNodes nodes with distinct    *)
(* ids that are not contiguous, in any order, a bottleneck between the     *)
(* first two nodes, at most one other link and at most one flow between    *)
(* the nodes.                                                              *)
(***************************************************************************)
MaxSpecNodes == 3

SpecNodeIds == {3 * i + 1 : i \in 0..MaxSpecNodes}

SpecNodeKinds == {"Source", "Destination", "Switch"}

SpecNodeLists ==
    {[i \in DOMAIN ids |-> LinkSimNode(ids[i], IF i = 1 THEN first ELSE "Switch")] :
        ids \in {q \in UNION {[1..k -> SpecNodeIds] : k \in 2..MaxSpecNodes} :
                    \A i, j \in DOMAIN q : i # j => q[i] # q[j]},
        first \in SpecNodeKinds}

\* The specs over a list of nodes.
LinkSimSpecs(ns) ==
    LET ids == {ns[i].id : i \in DOMAIN ns}
        pairs == {p \in ids \X ids : p[1] # p[2]}
    IN  {[edge |-> 7,
          bottleneck |-> LinkSimLink(ns[1].id, ns[2].id, 400000, 300000, 1000),
          other_links |-> ls, nodes |-> ns, flows |-> fs] :
            ls \in {<<>>} \cup {<<LinkSimLink(p[1], p[2], 200000, 200000, 2000)>> :
                                    p \in pairs},
            fs \in {<<>>} \cup {<<Flow(5, p[1], p[2], 1001, NanosPerSec)>> :
                                    p \in pairs}}

InitContig ==
    /\ pc = "spec"
    /\ nodes = <<>>
    /\ links = <<>>
    /\ network = NoNetwork
    /\ flows = <<>>
    /\ hash = <<>>
    /\ sim = None
    /\ opts = None
    /\ \E ns \in SpecNodeLists : run \in LinkSimSpecs(ns)
    /\ delays = None
    /\ prediction = None

RunContiguousify ==
    /\ pc = "spec"
    /\ delays' = Contiguousify(run)
    /\ pc' = "contiguous"
    /\ UNCHANGED <<nodes, links, network, simVars, opts, run, prediction>>

NextContig == RunContiguousify

SpecContig == InitContig /\ [][NextContig]_vars

\* The old id the map sends to a new id.
OldOf(old2new, new) == CHOOSE old \in DOMAIN old2new : old2new[old] = new

\* The result of contiguousify with every id sent back through the map.
MappedBack(res) ==
    LET back(l) == [l EXCEPT !.from = OldOf(res.old2new, l.from),
                             !.to = OldOf(res.old2new, l.to)]
    IN  [edge |-> res.spec.edge,
         bottleneck |-> back(res.spec.bottleneck),
         other_links |-> [i \in DOMAIN res.spec.other_links |->
                            back(res.spec.other_links[i])],
         nodes |-> [i \in DOMAIN res.spec.nodes |->
                      [res.spec.nodes[i] EXCEPT !.id = OldOf(res.old2new, @)]],
         flows |-> [i \in DOMAIN res.spec.flows |->
                      [res.spec.flows[i] EXCEPT
                          !.src = OldOf(res.old2new, @),
                          !.dst = OldOf(res.old2new, @)]]]

\* C23: for a LinkSimSpec with pairwise distinct node ids whose links and
\* flows name listed nodes only, contiguousify returns a spec whose node
\* ids are 0..N-1 and a map from old to new ids that is a bijection; sent
\* back through the inverse map the result is the original spec, and the
\* bandwidths, delays, node kinds, the edge index and the ids, sizes and
\* starts of the flows are unchanged.
C23_Contiguousify ==
    pc = "contiguous" =>
        /\ delays.tag = "Ok"
        /\ LET res == delays.val
               n == Len(run.nodes)
           IN  /\ {res.spec.nodes[i].id : i \in DOMAIN res.spec.nodes} = 0..(n - 1)
               /\ Len(res.spec.nodes) = n
               /\ DOMAIN res.old2new = {run.nodes[i].id : i \in DOMAIN run.nodes}
               /\ {res.old2new[id] : id \in DOMAIN res.old2new} = 0..(n - 1)
               /\ \A a, b \in DOMAIN res.old2new :
                     res.old2new[a] = res.old2new[b] => a = b
               /\ \A id \in LookedUp(res.spec) : id \in 0..(n - 1)
               /\ MappedBack(res) = run
               /\ res.spec.edge = run.edge
               /\ \A i \in DOMAIN run.nodes : res.spec.nodes[i].kind = run.nodes[i].kind
               /\ res.spec.bottleneck.total_bandwidth = run.bottleneck.total_bandwidth
               /\ res.spec.bottleneck.available_bandwidth = run.bottleneck.available_bandwidth
               /\ res.spec.bottleneck.delay = run.bottleneck.delay
               /\ \A i \in DOMAIN run.flows :
                     /\ res.spec.flows[i].id = run.flows[i].id
                     /\ res.spec.flows[i].size = run.flows[i].size
                     /\ res.spec.flows[i].start = run.flows[i].start

\* A spec of three nodes listed out of the order of their ids, with another
\* link and a flow, whose ids have all changed.
C23_Witness ==
    /\ pc = "contiguous"
    /\ delays.tag = "Ok"
    /\ Len(run.nodes) = 3
    /\ run.nodes[1].id > run.nodes[2].id
    /\ run.other_links # <<>>
    /\ run.flows # <<>>
    /\ delays.val.spec.flows[1].src # run.flows[1].src
    /\ delays.val.spec.flows[1].dst # run.flows[1].dst

(***************************************************************************)
(* spec.rs: Spec::validate and ValidSpec::collect_flows.                   *)
(*                                                                         *)
(* A client declares virtual nodes and flows between virtual nodes; the    *)
(* mappings give, per client, a map from virtual nodes to nodes of the     *)
(* network.  A map is a function on the set of its keys.                   *)
(***************************************************************************)
VFlow(id, src, dst) == [id |-> id, src |-> src, dst |-> dst]

VClient(id, vnodes, vflows) == [id |-> id, nodes |-> vnodes, flows |-> vflows]

SpecError(kind, payload) == [tag |-> "Err", kind |-> kind, payload |-> payload]

\* The error of the flows of a client: of the first flow with an undeclared
\* endpoint, the source before the destination.
FlowError(client) ==
    LET vnodes == client.nodes
        bad == {i \in DOMAIN client.flows :
                    client.flows[i].src \notin vnodes \/ client.flows[i].dst \notin vnodes}
    IN  IF bad = {} THEN None
        ELSE LET f == client.flows[Min(bad)]
             IN  IF f.src \notin vnodes
                 THEN SpecError("InvalidFlowSrc", [flow |-> f.id, src |-> f.src])
                 ELSE SpecError("InvalidFlowDst", [flow |-> f.id, dst |-> f.dst])

\* The error of one entry of a client's map.
EntryError(client, physical, vnode, node) ==
    IF vnode \notin client.nodes
    THEN SpecError("InvalidMappingFrom", [client |-> client.id, from |-> vnode])
    ELSE IF node \notin physical
         THEN SpecError("InvalidMappingTo", [client |-> client.id, to |-> node])
         ELSE None

\* The errors validate can return for one client; the entries of a map are
\* visited in the order of the hash map, so the error of any bad entry can
\* be the first.  The empty set stands for a client that passes.
ClientErrors(spec, client) ==
    LET physical == {spec.network.nodes[i].id : i \in DOMAIN spec.network.nodes}
    IN  IF FlowError(client) # None THEN {FlowError(client)}
        ELSE IF client.id \notin DOMAIN spec.mappings
             THEN {SpecError("MissingClientMapping", client.id)}
             ELSE LET map == spec.mappings[client.id]
                  IN  {EntryError(client, physical, v, map[v]) : v \in DOMAIN map} \ {None}

\* Spec::validate: the results it can return.
ValidateOutcomes(spec) ==
    LET bad == {i \in DOMAIN spec.clients : ClientErrors(spec, spec.clients[i]) # {}}
    IN  IF bad = {} THEN {Ok(spec)}
        ELSE ClientErrors(spec, spec.clients[Min(bad)])

\* ValidSpec::collect_flows: the flows between nodes of the network, or the
\* panic of one of its unwraps.
CollectFlows(spec) ==
    IF \E i \in DOMAIN spec.clients :
          /\ spec.clients[i].flows # <<>>
          /\ \/ spec.clients[i].id \notin DOMAIN spec.mappings
             \/ \E j \in DOMAIN spec.clients[i].flows :
                   ~({spec.clients[i].flows[j].src, spec.clients[i].flows[j].dst}
                        \subseteq DOMAIN spec.mappings[spec.clients[i].id])
    THEN Panic
    ELSE Ok(Flatten([i \in DOMAIN spec.clients |->
                [j \in DOMAIN spec.clients[i].flows |->
                    LET vf == spec.clients[i].flows[j]
                        map == spec.mappings[spec.clients[i].id]
                    IN  VFlow(vf.id, map[vf.src], map[vf.dst])]]))

(***************************************************************************)
(* validate and collect_flows on the specs over the network of two hosts   *)
(* and a switch, with one client of two virtual nodes and up to            *)
(* MaxVFlows flows, alone or followed by a second client.                  *)
(***************************************************************************)
MaxVFlows == 1

\* Virtual nodes 0 and 1 are declared, 2 is not.
VNodeIds == {0, 1, 2}

\* Nodes 0 and 1 are hosts, 2 is the switch, 9 is not in the network.
MappedNodeIds == {0, 1, 2, 9}

VFlowLists ==
    UNION {{[j \in 1..k |-> VFlow(j - 1, e[j][1], e[j][2])] :
                e \in [1..k -> VNodeIds \X VNodeIds]} : k \in 0..MaxVFlows}

NodeMaps == UNION {[d -> MappedNodeIds] : d \in SUBSET VNodeIds}

\* The clients that can follow the first: none, one that passes, one with
\* an undeclared flow source, one without a map, one with a map to a node
\* that the network does not have.
SecondClients ==
    {[clients |-> <<>>, mappings |-> <<>>],
     [clients |-> <<VClient(1, {0, 1}, <<VFlow(7, 0, 1)>>)>>,
      mappings |-> (1 :> (0 :> 0 @@ 1 :> 1))],
     [clients |-> <<VClient(1, {0, 1}, <<VFlow(7, 2, 1)>>)>>,
      mappings |-> (1 :> (0 :> 0 @@ 1 :> 1))],
     [clients |-> <<VClient(1, {0, 1}, <<VFlow(7, 0, 1)>>)>>,
      mappings |-> <<>>],
     [clients |-> <<VClient(1, {0, 1}, <<VFlow(7, 0, 1)>>)>>,
      mappings |-> (1 :> (0 :> 0 @@ 1 :> 9))]}

InitValidate ==
    /\ pc = "spec"
    /\ nodes = <<>>
    /\ links = <<>>
    /\ network = NoNetwork
    /\ flows = <<>>
    /\ hash = <<>>
    /\ sim = None
    /\ opts = None
    /\ \E fs \in VFlowLists, second \in SecondClients, mapped \in BOOLEAN :
          \E map \in IF mapped THEN NodeMaps ELSE {None} :
             run = [network |-> ThreeNodeConfig,
                    clients |-> <<VClient(0, {0, 1}, fs)>> \o second.clients,
                    mappings |-> IF mapped THEN (0 :> map) @@ second.mappings
                                 ELSE second.mappings]
    /\ delays = None
    /\ prediction = None

\* `let spec = spec.validate()?;`
RunValidate ==
    /\ pc = "spec"
    /\ delays' \in ValidateOutcomes(run)
    /\ pc' = "validated"
    /\ UNCHANGED <<nodes, links, network, simVars, opts, run, prediction>>

\* `let flows = spec.collect_flows();`
RunCollectFlows ==
    /\ pc = "validated"
    /\ delays.tag = "Ok"
    /\ prediction' = CollectFlows(delays.val)
    /\ pc' = "collected"
    /\ UNCHANGED <<nodes, links, network, simVars, opts, run, delays>>

NextValidate == RunValidate \/ RunCollectFlows

SpecValidate == InitValidate /\ [][NextValidate]_vars

\* The kind of the node of the network a client's virtual node stands for.
KindOf(spec, client, vnode) ==
    IF client.id \in DOMAIN spec.mappings /\ vnode \in DOMAIN spec.mappings[client.id]
    THEN LET at == {i \in DOMAIN spec.network.nodes :
                        spec.network.nodes[i].id = spec.mappings[client.id][vnode]}
         IN  IF at = {} THEN "Undeclared" ELSE spec.network.nodes[Min(at)].kind
    ELSE "Unmapped"

IsDeclaredHost(spec, client, vnode) ==
    vnode \in client.nodes /\ KindOf(spec, client, vnode) = "Host"

\* C24: validation succeeds only if the source and the destination of
\* every flow are declared nodes of kind Host.
C24_FlowsBetweenHosts ==
    (pc = "validated" /\ delays.tag = "Ok") =>
        \A i \in DOMAIN run.clients : \A j \in DOMAIN run.clients[i].flows :
            /\ IsDeclaredHost(run, run.clients[i], run.clients[i].flows[j].src)
            /\ IsDeclaredHost(run, run.clients[i], run.clients[i].flows[j].dst)

\* What validate does check of the flows: their endpoints are virtual nodes
\* of their client, and the error names the first flow of the first client
\* that has an undeclared endpoint, the source before the destination.
FlowsBetweenDeclared ==
    pc = "validated" =>
        /\ delays.tag = "Ok" =>
              \A i \in DOMAIN run.clients : \A j \in DOMAIN run.clients[i].flows :
                  {run.clients[i].flows[j].src, run.clients[i].flows[j].dst}
                      \subseteq run.clients[i].nodes
        /\ (\E j \in DOMAIN run.clients[1].flows :
                run.clients[1].flows[j].src \notin run.clients[1].nodes
                /\ \A k \in 1..(j - 1) :
                      {run.clients[1].flows[k].src, run.clients[1].flows[k].dst}
                          \subseteq run.clients[1].nodes)
              => (delays.tag = "Err" /\ delays.kind = "InvalidFlowSrc")

\* C30: after validate has succeeded collect_flows does not panic.
C30_CollectFlowsTotal == pc = "collected" => prediction.tag = "Ok"

(***************************************************************************)
(* network.rs: Network::into_simulations_path.  The hash of                *)
(* calculate_hash_ns3 is given as a function `h` of the key and the seed.  *)
(***************************************************************************)
BASE_IP == 184549377

IP_STEP == 65536

\* utils.rs: node_id_to_ip, the address as a number.
NodeIdToIp(id) == BASE_IP + ((id \div 256) * IP_STEP) + ((id % 256) * 256)

\* `server_address`: the address of a host, the unspecified address of a
\* switch.
ServerAddress(t, id) == IF t.nodes[id + 1].kind = "Host" THEN NodeIdToIp(id) ELSE 0

\* `port_number_map`: the source port of flow number i is 10000 plus the
\* number of earlier flows between its hosts; of the flows with one id the
\* first gives the port.
SourcePort(fs, id) ==
    LET i == Min({k \in DOMAIN fs : fs[k].id = id})
    IN  10000 + Cardinality({k \in 1..(i - 1) :
                    fs[k].src = fs[i].src /\ fs[k].dst = fs[i].dst})

\* `buf`: source address, destination address, source port, destination
\* port.
HashKey(t, fs, f) ==
    <<ServerAddress(t, f.src), ServerAddress(t, f.dst), SourcePort(fs, f.id), 100>>

\* edge_indices_between_ns3: a switch takes the next hop the hash names, a
\* host the first; indexing into no choices panics.
RECURSIVE EdgeIndicesNs3Walk(_, _, _, _, _, _)
EdgeIndicesNs3Walk(net, cur, dst, key, h, acc) ==
    IF cur = dst THEN Ok(acc)
    ELSE
        LET hops == NextHops(net.routes, cur, dst)
        IN  IF hops = None THEN Ok(acc)
            ELSE IF hops.val = <<>> THEN Panic
            ELSE
                LET idx == IF net.topology.nodes[cur + 1].kind = "Switch"
                           THEN h[<<key, cur>>] % Len(hops.val)
                           ELSE 0
                    next_hop == hops.val[idx + 1]
                IN  EdgeIndicesNs3Walk(net, next_hop, dst, key, h,
                        Append(acc, FindEdge(net.topology, cur, next_hop)))

EdgeIndicesBetweenNs3(net, src, dst, key, h) ==
    EdgeIndicesNs3Walk(net, src, dst, key, h, <<>>)

\* `path_vec`: the pair of the flow's hosts, then the pair of end nodes of
\* each edge of the path.
PathVec(net, fs, h, f) ==
    LET path == EdgeIndicesBetweenNs3(net, f.src, f.dst,
                                      HashKey(net.topology, fs, f), h).val
    IN  <<<<f.src, f.dst>>>> \o
        [i \in DOMAIN path |->
            <<net.topology.edges[path[i]].src, net.topology.edges[path[i]].dst>>]

\* The two maps of the fold, as functions on their keys; None when empty.
ChannelToFlowidMap(net, fs, h) ==
    LET pairs == UNION {Range(Tail(PathVec(net, fs, h, fs[i]))) : i \in DOMAIN fs}
    IN  IF pairs = {} THEN None
        ELSE Some([c \in pairs |->
                    {fs[i].id : i \in {k \in DOMAIN fs :
                                    c \in Range(Tail(PathVec(net, fs, h, fs[k])))}}])

PathToFlowidMap(net, fs, h) ==
    LET paths == {PathVec(net, fs, h, fs[i]) : i \in DOMAIN fs}
    IN  IF paths = {} THEN None
        ELSE Some([p \in paths |->
                    {fs[i].id : i \in {k \in DOMAIN fs : PathVec(net, fs, h, fs[k]) = p}}])

\* Network::into_simulations_path.  The channels of the traced topology are
\* the ones new_traced makes; nothing is pushed on them.
IntoSimulationsPath(net, fs, h) ==
    IF \E i \in DOMAIN fs :
          EdgeIndicesBetweenNs3(net, fs[i].src, fs[i].dst,
                                HashKey(net.topology, fs, fs[i]), h) = Panic
    THEN Panic
    ELSE
        LET t == net.topology
        IN  [tag |-> "Sim",
             topology |-> [nodes |-> t.nodes,
                           edges |-> [e \in DOMAIN t.edges |->
                                        FlowChannelNewFrom(t.edges[e])],
                           links |-> t.links],
             routes |-> net.routes,
             clusters |-> [e \in DOMAIN t.edges |-> Cluster(e, {e})],
             flows |-> FlowMap(fs),
             channel_to_flowid_map |-> ChannelToFlowidMap(net, fs, h),
             path_to_flowid_map |-> PathToFlowidMap(net, fs, h)]

(***************************************************************************)
(* into_simulations_path on the eight-node Clos of testing.rs with up to   *)
(* MaxPathFlows flows from host 0 to host 3, as ecmp_replication_works     *)
(* makes them, under every hash of the keys of the flows.                  *)
(***************************************************************************)
MaxPathFlows == 3

\* testing.rs: eight_node_config, with the bandwidths in Gbps.
EightNodeConfig ==
    [nodes |-> <<Node(0, "Host"), Node(1, "Host"), Node(2, "Host"), Node(3, "Host"),
                 Node(4, "Switch"), Node(5, "Switch"), Node(6, "Switch"),
                 Node(7, "Switch")>>,
     links |-> <<Link(0, 4, 10, 1000), Link(1, 4, 10, 1000),
                 Link(2, 5, 10, 1000), Link(3, 5, 10, 1000),
                 Link(4, 6, 10, 1000), Link(4, 7, 10, 1000),
                 Link(5, 6, 10, 1000), Link(5, 7, 10, 1000)>>]

EcmpFlows(n) == [i \in 1..n |-> Flow(i - 1, 0, 3, 1000, 2000000000)]

InitPath ==
    /\ pc = "start"
    /\ nodes = EightNodeConfig.nodes
    /\ links = EightNodeConfig.links
    /\ network = NoNetwork
    /\ flows = <<>>
    /\ hash = <<>>
    /\ sim = None
    /\ opts = None
    /\ run = None
    /\ delays = None
    /\ prediction = None

RunIntoSimulationsPath ==
    /\ pc = "routed"
    /\ network.tag = "Ok"
    /\ \E n \in 1..MaxPathFlows :
          /\ flows' = EcmpFlows(n)
          /\ hash' \in [{<<HashKey(network.topology, flows', flows'[i]), sw>> :
                            i \in 1..n, sw \in 4..7} -> {0, 1}]
    /\ sim' = IntoSimulationsPath(network, flows', hash')
    /\ pc' = "simulated"
    /\ UNCHANGED <<nodes, links, network, delayVars>>

NextPath == NewNetwork \/ RunIntoSimulationsPath

SpecPath == InitPath /\ [][NextPath]_vars

\* The channel from node a to node b.
ChannelBetween(s, a, b) ==
    s.topology.edges[CHOOSE e \in DOMAIN s.topology.edges :
                        s.topology.edges[e].src = a /\ s.topology.edges[e].dst = b]

\* C25: on the eight-node Clos, after into_simulations_path with flows from
\* host 0 to host 3, every flow is listed on exactly one of the channels
\* 4->6 and 4->7, and the lengths of the flow lists of the two channels sum
\* to the number of flows.
C25_EcmpReplication ==
    (pc = "simulated" /\ sim.tag = "Sim") =>
        LET e1 == ChannelBetween(sim, 4, 6)
            e2 == ChannelBetween(sim, 4, 7)
        IN  /\ \A i \in DOMAIN flows :
                  (flows[i].id \in Range(e1.flows)) # (flows[i].id \in Range(e2.flows))
            /\ Len(e1.flows) + Len(e2.flows) = Len(flows)

\* Where into_simulations_path does list the flows: in the map from the
\* end nodes of a channel to flow ids, in which every flow is under exactly
\* one of (4, 6) and (4, 7); the flow lists of the channels stay empty.
EcmpInChannelMap ==
    (pc = "simulated" /\ sim.tag = "Sim") =>
        /\ sim.channel_to_flowid_map.tag = "Some"
        /\ LET map == sim.channel_to_flowid_map.val
               at(c) == IF c \in DOMAIN map THEN map[c] ELSE {}
           IN  /\ at(<<4, 6>>) \cap at(<<4, 7>>) = {}
               /\ at(<<4, 6>>) \cup at(<<4, 7>>) = {flows[i].id : i \in DOMAIN flows}
        /\ \A e \in DOMAIN sim.topology.edges : sim.topology.edges[e].flows = <<>>

(***************************************************************************)
(* The available bandwidths of link_sim_desc, on the networks and flows of *)
(* SpecDesc.                                                               *)
(***************************************************************************)
\* The available bandwidth is a difference that has not overflowed and is
\* at most the total bandwidth.
WithinTotal(l) ==
    /\ l.available_bandwidth.tag = "Ok"
    /\ l.available_bandwidth.val <= l.total_bandwidth

\* C26: in every LinkSimDesc that link_sim_desc produces, the bottleneck
\* and every source-side link have available_bandwidth <= total_bandwidth:
\* the ACK rate subtracted from the bandwidth of a channel never exceeds
\* it, so the unsigned subtraction never underflows.
C26_AvailableBandwidth ==
    (pc = "described" /\ delays.desc.tag = "Some") =>
        /\ WithinTotal(delays.desc.val.bottleneck)
        /\ \A k \in DOMAIN delays.desc.val.other_links :
              WithinTotal(delays.desc.val.other_links[k])

(***************************************************************************)
(* The assertions and unwraps of link_sim_desc, on the networks and flows  *)
(* of SpecDesc.                                                            *)
(***************************************************************************)
\* What link_sim_desc asserts of the channel of an edge that carries flows.
ChannelAsserts(s, e) ==
    LET chan == s.topology.edges[e]
        ids == chan.flow_srcs \cup chan.flow_dsts \cup {chan.src, chan.dst}
    IN  NrFlows(chan) > 0 =>
        /\ chan.flow_srcs \cap chan.flow_dsts = {}
        /\ chan.src \in chan.flow_srcs => Cardinality(chan.flow_srcs) = 1
        /\ chan.dst \in chan.flow_dsts => Cardinality(chan.flow_dsts) = 1
        /\ \A id \in ids \cap HostIds(s.topology.nodes) :
              id \in chan.flow_srcs \cup chan.flow_dsts

\* C27: for every SimNetwork built by into_simulations over BFS routes from
\* an accepted topology and flows between distinct hosts joined by a route,
\* link_sim_desc fails no assertion and no unwrap on any edge: flow_srcs and
\* flow_dsts of a channel are disjoint, a channel whose source node is a
\* flow source has one flow source, a channel whose destination node is a
\* flow destination has one flow destination, and every host among the
\* nodes of the descriptor is a flow source or a flow destination.  The
\* only panic of link_sim_desc is the overflow of a subtraction in a build
\* that checks for it.
C27_DescriptorAsserts ==
    /\ (pc = "simulated" /\ sim.tag = "Sim") =>
          \A e \in DOMAIN sim.topology.edges : ChannelAsserts(sim, e)
    /\ (pc = "described" /\ delays.desc = Panic) =>
          /\ delays.overflow_checks
          /\ \A d \in {LinkSimTopology(sim, delays.edge, FALSE)} :
                /\ d.tag = "Some"
                /\ \/ d.val.bottleneck.available_bandwidth.tag = "Wrapped"
                   \/ \E k \in DOMAIN d.val.other_links :
                         d.val.other_links[k].available_bandwidth.tag = "Wrapped"

\* The descriptor of an edge from a host that is the one source of two
\* flows or more, with a link to a destination behind the edge.
C27_Witness ==
    /\ pc = "described"
    /\ delays.desc.tag = "Some"
    /\ sim.topology.edges[delays.edge].src \in sim.topology.edges[delays.edge].flow_srcs
    /\ Len(delays.desc.val.flows) >= 2
    /\ delays.desc.val.other_links # <<>>

(***************************************************************************)
(* into_simulations under the arrival orders of the chunk results, on the  *)
(* networks and flows of Spec.                                             *)
(***************************************************************************)
\* What into_simulations returns on the most CPUs when the chunk results
\* arrive in any order.
Schedules ==
    LET nrCpus == Max(CpuCounts)
    IN  {IntoSimulations(network, flows, hash, nrCpus, order) :
            order \in Perms(Len(Chunks(flows, ChunkSize(Len(flows), nrCpus))))}

\* C28: into_simulations yields the same SimNetwork, with the same
\* sequence of flow ids and the same counters on every channel, for every
\* scheduling of its parallel chunk workers, also when several flows on one
\* edge have equal start times.
C28_ScheduleIndependent ==
    Simulated => \A other \in Schedules : other = sim

\* What does not depend on the schedule: everything but the order of the
\* flow ids of a channel among flows with one start time.
SameUpToTies ==
    Simulated =>
        \A other \in Schedules :
            /\ other.flows = sim.flows
            /\ other.clusters = sim.clusters
            /\ \A e \in DOMAIN sim.topology.edges :
                  LET a == sim.topology.edges[e]
                      b == other.topology.edges[e]
                  IN  /\ [b EXCEPT !.flows = <<>>] = [a EXCEPT !.flows = <<>>]
                      /\ Len(a.flows) = Len(b.flows)
                      /\ \A k \in DOMAIN a.flows :
                            a.flows[k] # b.flows[k] =>
                                \E i, j \in DOMAIN flows :
                                    /\ flows[i].id = a.flows[k]
                                    /\ flows[j].id = b.flows[k]
                                    /\ flows[i].start = flows[j].start

(***************************************************************************)
(* greedy.rs: Features::get on the shared cache.  The cache is a DashMap:  *)
(* its keys are spread over shards, `entry` takes the write lock of the    *)
(* shard of the key and waits while another thread holds it,               *)
(* `or_insert_with` runs its closure under that lock when the entry is     *)
(* vacant, and the lock is released when the reference returned is dropped *)
(* after the clone.  The threads are the one of `cluster` and the tasks of *)
(* its parallel iterator; each makes up to MaxGets calls, for any edges.   *)
(* The value of an evaluation of the feature function is tagged with the   *)
(* number of the evaluation, so that two evaluations for one edge differ.  *)
(***************************************************************************)
MaxGetTasks == 2

MaxGets == 2

GetTasks == 1..MaxGetTasks

CacheEdges == {1, 2}

CacheShards == {0, 1}

\* A variant in which the shard is never locked.
ShardFree_Always(lock, shard) == TRUE

\* The write lock of the shard is free.
ShardFree(lock, shard) == lock[shard] = 0

InitFeatures ==
    /\ pc = "features"
    /\ nodes = <<>>
    /\ links = <<>>
    /\ network = NoNetwork
    /\ flows = <<>>
    /\ hash = <<>>
    /\ sim = None
    /\ opts = None
    /\ \E shardOf \in [CacheEdges -> CacheShards] :
          run = [shardOf |-> shardOf,
                 cache |-> [e \in CacheEdges |-> None],
                 lock |-> [sh \in CacheShards |-> 0],
                 evals |-> [e \in CacheEdges |-> 0],
                 returned |-> [e \in CacheEdges |-> {}],
                 tasks |-> [t \in GetTasks |->
                              [pc |-> "idle", eidx |-> 0, left |-> MaxGets]]]
    /\ delays = None
    /\ prediction = None

FeaturesUnchanged ==
    UNCHANGED <<pc, nodes, links, network, simVars, opts, delays, prediction>>

\* A thread calls `features.get(eidx)`.
GetCall(t) ==
    /\ run.tasks[t].pc = "idle"
    /\ run.tasks[t].left > 0
    /\ \E e \in CacheEdges :
          run' = [run EXCEPT !.tasks[t] =
                     [pc |-> "entry", eidx |-> e, left |-> @.left - 1]]
    /\ FeaturesUnchanged

\* `self.cache.entry(eidx)`: the thread gets the lock of the shard and sees
\* whether the entry is vacant.
CacheEntry(t) ==
    LET e == run.tasks[t].eidx
    IN  /\ run.tasks[t].pc = "entry"
        /\ ShardFree(run.lock, run.shardOf[e])
        /\ run' = [run EXCEPT
                      !.lock[run.shardOf[e]] = t,
                      !.tasks[t].pc = IF run.cache[e] = None THEN "vacant"
                                      ELSE "occupied"]
        /\ FeaturesUnchanged

\* `.or_insert_with(|| (self.feature)(chan, &flows))` on a vacant entry.
OrInsertWith(t) ==
    LET e == run.tasks[t].eidx
    IN  /\ run.tasks[t].pc = "vacant"
        /\ run' = [run EXCEPT
                      !.evals[e] = @ + 1,
                      !.cache[e] = Some(<<e, run.evals[e] + 1>>),
                      !.tasks[t].pc = "occupied"]
        /\ FeaturesUnchanged

\* `.clone()`, the drop of the reference, and the return.
CloneAndReturn(t) ==
    LET e == run.tasks[t].eidx
    IN  /\ run.tasks[t].pc = "occupied"
        /\ run' = [run EXCEPT
                      !.returned[e] = @ \cup {run.cache[e].val},
                      !.lock[run.shardOf[e]] = 0,
                      !.tasks[t].pc = "idle"]
        /\ FeaturesUnchanged

NextFeatures ==
    \E t \in GetTasks :
        \/ GetCall(t)
        \/ CacheEntry(t)
        \/ OrInsertWith(t)
        \/ CloneAndReturn(t)

SpecFeatures == InitFeatures /\ [][NextFeatures]_vars

\* C29: during greedy clustering the feature function is evaluated at most
\* once per edge, also when several parallel tasks request the feature of
\* one edge at the same time; every later request for the edge returns the
\* cached value.
C29_ComputedOnce ==
    pc = "features" =>
        \A e \in CacheEdges :
            /\ run.evals[e] <= 1
            /\ run.returned[e] \subseteq {<<e, 1>>}
            /\ run.returned[e] # {} => run.cache[e] = Some(<<e, 1>>)

\* Two threads have asked for one edge at the same time: one waits at the
\* entry while the other holds it, after the value was computed and
\* returned once.
C29_Witness ==
    /\ pc = "features"
    /\ \E t, u \in GetTasks : \E e \in CacheEdges :
          /\ t # u
          /\ run.tasks[t].pc = "occupied" /\ run.tasks[t].eidx = e
          /\ run.tasks[u].pc = "entry" /\ run.tasks[u].eidx = e
          /\ run.evals[e] = 1
          /\ run.returned[e] # {}

=============================================================================
